---- MODULE Spec2Model ----
(***************************************************************************)
(* quack-check: the chunk planner (src/src/chunk_plan.rs) and the pipeline *)
(* controller (src/src/pipeline.rs, src/src/probe.rs, src/src/policy.rs).  *)
(*                                                                         *)
(* The specifications share the variables below.                           *)
(*   SpecPlan      runs the loop of ChunkPlan::from_page_count, one        *)
(*                 iteration per step.                                     *)
(*   Spec          runs cli::run and Pipeline::run_job against an engine   *)
(*                 whose answers are chosen nondeterministically.          *)
(*   SpecPolicy    applies policy::decide to two probe results.            *)
(*   SpecGateway   runs PythonEngine::run_json against an arbitrary child. *)
(*   SpecPost      applies the functions of postprocess.rs to drawn texts. *)
(*   SpecIdentity  computes the job_id of two runs.                        *)
(***************************************************************************)
EXTENDS Integers, Sequences, FiniteSets, TLC

\* ------------------------------------------------------------------ bounds

\* Longest timeout the gateway's clock is followed for, in seconds.
MaxTimeoutSecs == 1
\* Largest page count of the planner specification.
MaxPlanPages == 9
\* Largest configured target/max/min pages per chunk of the planner specification.
MaxCfgPages == 4
\* Largest page count the probe of the pipeline specification reports.
MaxJobPages == 5
\* Clock ticks per second: the clock of the model advances in fractions of a second.
TicksPerSec == 2
\* Largest number of ticks one engine call takes.
MaxCallTicks == 2
\* The clock of the model stops advancing here.
MaxElapsed == 4
\* Bits of the scaled-down machine word standing for u32.
WordBits == 7
\* Capacity of an operating-system pipe, in bytes.
PipeCap == 2
\* Largest serialized request, in bytes.
MaxReqBytes == 3
\* Largest number of bytes the child writes to one of its output streams.
MaxStreamBytes == 3
\* Iterations of the planner loop followed on inputs at the top of the word.
MaxChunks == 8
\* Longest markdown text given to markdown_to_text, in code points.
MaxMdLen == 5

\* ----------------------------------------------------------------- helpers

Min(a, b) == IF a <= b THEN a ELSE b
Max(a, b) == IF a >= b THEN a ELSE b

\* u32 arithmetic as a release build computes it: results wrap at the word size.
Modulus == 2 ^ WordBits
WrappingAdd(a, b) == (a + b) % Modulus
WrappingSub(a, b) == (a - b + Modulus) % Modulus
SaturatingSub(a, b) == IF a >= b THEN a - b ELSE 0

Last(s) == s[Len(s)]
RangeLen(r) == r.end_page - r.start_page + 1

VARIABLES
    cfg,            \* the effective configuration (Config)
    \* --- ChunkPlan::from_page_count
    page_count,     \* its argument
    p,              \* the cursor
    chunks,         \* the ranges pushed so far
    plan_pc,        \* "idle" | "loop" | "done"
    \* --- Pipeline::run_job
    pc,             \* position in run_job
    file_bytes,     \* size of the input file (std::fs::metadata)
    probe_res,      \* ProbeResult
    decision,       \* PolicyDecision
    plan,           \* the ChunkPlan handed to prepare_chunks
    chunk_inputs,   \* Vec<ChunkInput>
    i,              \* index of the chunk being processed (0-based)
    out,            \* result of the last convert call of chunk i
    used_fallback,
    chunk_reports,  \* Vec<ChunkReport>
    markdown_parts, \* Vec<String>, one token per chunk
    calls,          \* every engine call made so far, in order
    elapsed,        \* ticks since `started`
    checked_at,     \* started.elapsed() as read by the deadline check of chunk i
    split_failed,   \* the split call returned Err
    removed,        \* the files cleanup_intermediates has removed
    job_out,        \* "none" | "ok" | "err": what run_job (or run, before it) returned
    \* --- a second classification, for claims that compare two probes
    probe_other,    \* ProbeResult of another document
    decision_other, \* PolicyDecision of that document
    \* --- PythonEngine::run_json and its child process
    gw_pc,          \* position of the calling thread in run_json
    gw_op,          \* the Engine method that called run_json
    gw_timeout,     \* timeout_seconds: Option<u64>
    req_left,       \* bytes of the request write_all has not written yet
    stdin_pipe,     \* bytes in the child's stdin pipe
    stdout_pipe,    \* bytes in the child's stdout pipe
    stderr_pipe,    \* bytes in the child's stderr pipe
    out_buf,        \* bytes the stdout reader thread has collected
    err_buf,        \* bytes the stderr reader thread has collected
    child,          \* the child process
    gw_elapsed,     \* start.elapsed(), in polls
    gw_result,      \* what run_json returned
    \* --- the postprocess functions, applied to drawn texts
    parts,          \* Vec<String>: the chunk outputs, each a sequence of code points
    sanitized,      \* sanitize_control_chars of the joined parts
    deduped,        \* remove_repeated_lines of the joined parts
    merged,         \* merge_markdown(cfg, parts)
    remerged,       \* merge_markdown(cfg, vec![merged])
    text,           \* markdown_to_text(cfg, &merged)
    post_pc,        \* which of them have been applied
    \* --- cli::run around run_job
    prior_run,      \* job_dir.exists() at entry: an earlier run left its directory
    written,        \* the files this run has written under job_dir/final and index.json
    ambient,        \* what differs between two runs besides config and input
    job_ids         \* the job_id of a run and of a second run

planVars == <<page_count, p, chunks, plan_pc>>
jobVars == <<pc, file_bytes, probe_res, decision, plan, chunk_inputs, i, out,
             used_fallback, chunk_reports, markdown_parts, calls, elapsed,
             checked_at, split_failed, removed, job_out>>
polVars == <<probe_other, decision_other>>
gwVars == <<gw_pc, gw_op, gw_timeout, req_left, stdin_pipe, stdout_pipe, stderr_pipe,
            out_buf, err_buf, child, gw_elapsed, gw_result>>
\* What the planner and run_job leave alone.
postVars == <<parts, sanitized, deduped, merged, remerged, text, post_pc>>
runVars == <<prior_run, written, ambient, job_ids>>
sideVars == <<polVars, gwVars, postVars, runVars>>
\* What run_json leaves alone.
nonGwVars == <<cfg, planVars, jobVars, polVars, postVars, runVars>>
vars == <<cfg, planVars, jobVars, sideVars>>

\* ------------------------------------------------------------------ Config

\* A configuration with the shape of Config::default(), its sizes scaled down.
BaseCfg ==
    [ strategy |-> "physical_split",
      target_pages_per_chunk |-> 2,
      max_pages_per_chunk |-> 3,
      min_pages_per_chunk |-> 2,
      keep_split_pdfs |-> TRUE,
      keep_intermediates |-> TRUE,
      max_input_file_bytes |-> 2,
      max_input_pages |-> MaxJobPages,
      require_chunking_over_pages |-> 3,
      require_chunking_over_bytes |-> 1,
      job_timeout_seconds |-> 0,
      forced_tier |-> "AUTO",
      min_avg_chars_per_page_for_high_text |-> 1200,
      max_avg_chars_per_page_for_scan |-> 80,
      max_garbage_ratio_for_high_text |-> 2,
      max_whitespace_ratio_for_high_text |-> 55,
      high_text_engine |-> "native_text",
      mixed_text_engine |-> "docling",
      scan_engine |-> "docling",
      native_text_backend |-> "python_pypdf",
      docling_do_ocr |-> FALSE,
      write_chunk_json |-> TRUE,
      remove_by_regex |-> TRUE,
      regex_patterns_valid |-> TRUE,
      hashing_mode |-> "full_sha256",
      normalize_unicode |-> TRUE,
      normalize_newlines |-> TRUE,
      trim_trailing_whitespace |-> TRUE,
      remove_repeated_lines |-> TRUE,
      repeated_line_min_occurrences |-> 3,
      repeated_line_max_length |-> 4,
      control_chars_to_sanitize |-> {},
      fast_window_bytes |-> 1,
      resume |-> TRUE,
      max_parallel_chunks |-> 1,
      chunk_timeout_seconds |-> 1,
      doctor_timeout_seconds |-> 1,
      write_markdown |-> TRUE,
      write_text |-> TRUE,
      write_report_json |-> TRUE,
      write_index_json |-> TRUE ]

\* ------------------------------------------------ ChunkPlan::from_page_count

Target(c) == Max(c.target_pages_per_chunk, 1)
MaxP(c) == Max(c.max_pages_per_chunk, 1)
MinP(c) == Min(Max(c.min_pages_per_chunk, 1), MaxP(c))

ChunkEndMergesFirst(c, pages, q, empty) ==
    LET end0 == Min(WrappingSub(WrappingAdd(q, Target(c)), 1), pages)
        span == WrappingAdd(WrappingSub(end0, q), 1)
        end1 == IF span > MaxP(c) THEN WrappingSub(WrappingAdd(q, MaxP(c)), 1) ELSE end0
        remaining == SaturatingSub(pages, end1)
    IN  IF remaining > 0 /\ remaining < MinP(c) THEN pages ELSE end1
\* The end page of the chunk that starts at cursor q (the body of the loop up to
\* the push); `empty` is chunks.is_empty().
ChunkEnd(c, pages, q, empty) ==
    LET end0 == Min(WrappingSub(WrappingAdd(q, Target(c)), 1), pages)
        span == WrappingAdd(WrappingSub(end0, q), 1)
        end1 == IF span > MaxP(c) THEN WrappingSub(WrappingAdd(q, MaxP(c)), 1) ELSE end0
        remaining == SaturatingSub(pages, end1)
    IN  IF remaining > 0 /\ remaining < MinP(c) /\ ~empty THEN pages ELSE end1

NextCursorSkip(end) == WrappingAdd(end, 2)
\* p = end + 1
NextCursor(end) == WrappingAdd(end, 1)

RECURSIVE PlanLoop(_, _, _, _)
PlanLoop(c, pages, q, acc) ==
    IF q <= pages
    THEN LET end == ChunkEnd(c, pages, q, acc = <<>>)
         IN  PlanLoop(c, pages, NextCursor(end),
                      Append(acc, [start_page |-> q, end_page |-> end]))
    ELSE acc

FromPageCount(c, pages) ==
    [page_count |-> pages, chunks |-> PlanLoop(c, pages, 1, <<>>), strategy |-> c.strategy]

Single(pages, strategy) ==
    [page_count |-> pages,
     chunks |-> <<[start_page |-> 1, end_page |-> Max(pages, 1)]>>,
     strategy |-> strategy]

\* One iteration of `while p <= page_count`.
PlanStep ==
    /\ plan_pc = "loop"
    /\ p <= page_count
    /\ LET end == ChunkEnd(cfg, page_count, p, chunks = <<>>)
       IN  /\ chunks' = Append(chunks, [start_page |-> p, end_page |-> end])
           /\ p' = NextCursor(end)
    /\ UNCHANGED <<cfg, page_count, plan_pc, jobVars, sideVars>>

\* The loop exits and the plan is returned.
PlanReturn ==
    /\ plan_pc = "loop"
    /\ ~(p <= page_count)
    /\ plan_pc' = "done"
    /\ UNCHANGED <<cfg, page_count, p, chunks, jobVars, sideVars>>

JobIdle ==
    /\ pc = "idle"
    /\ file_bytes = 0
    /\ probe_res = [page_count |-> 0, file_bytes |-> 0, avg_chars_per_page |-> 0,
                    garbage_ratio |-> 0, whitespace_ratio |-> 0]
    /\ decision = [tier |-> "MixedText", chosen_engine |-> "docling", do_ocr |-> FALSE]
    /\ plan = [page_count |-> 0, chunks |-> <<>>, strategy |-> ""]
    /\ chunk_inputs = <<>>
    /\ i = 0
    /\ out = [kind |-> "none", ok |-> FALSE, missing |-> FALSE]
    /\ used_fallback = FALSE
    /\ chunk_reports = <<>>
    /\ markdown_parts = <<>>
    /\ calls = <<>>
    /\ elapsed = 0
    /\ checked_at = 0
    /\ split_failed = FALSE
    /\ removed = {}
    /\ job_out = "none"

NoResult == [kind |-> "none", stderr |-> 0, parsed |-> 0]

PolIdle ==
    /\ probe_other = [page_count |-> 0, file_bytes |-> 0, avg_chars_per_page |-> 0,
                      garbage_ratio |-> 0, whitespace_ratio |-> 0]
    /\ decision_other = [tier |-> "MixedText", chosen_engine |-> "docling", do_ocr |-> FALSE]

GwIdle ==
    /\ gw_pc = "idle"
    /\ gw_op = "none"
    /\ gw_timeout = [some |-> FALSE, secs |-> 0]
    /\ req_left = 0
    /\ stdin_pipe = 0
    /\ stdout_pipe = 0
    /\ stderr_pipe = 0
    /\ out_buf = 0
    /\ err_buf = 0
    /\ child = [state |-> "none", status |-> 0, wrote_out |-> 0, wrote_err |-> 0,
                prog |-> [out_len |-> 0, err_len |-> 0, valid |-> FALSE]]
    /\ gw_elapsed = 0
    /\ gw_result = NoResult

NoAmbient == [input |-> <<>>, out_root |-> "", now |-> 0]
\* No run has computed a job_id.
NoJobId == <<>>

IdIdle ==
    /\ ambient = [first |-> NoAmbient, other |-> NoAmbient, cfg_other |-> BaseCfg]
    /\ job_ids = [first |-> NoJobId, other |-> NoJobId]

RunIdle ==
    /\ prior_run = FALSE
    /\ written = <<>>
    /\ IdIdle

PostIdle ==
    /\ parts = <<>>
    /\ sanitized = <<>>
    /\ deduped = <<>>
    /\ merged = <<>>
    /\ remerged = <<>>
    /\ text = <<>>
    /\ post_pc = "idle"

\* The document and the settings of the test chunk_plan_basic.
ScenarioA == [page_count |-> 101, target |-> 40, max |-> 80, min |-> 10]

\* The drawn planner inputs: every small document under every small setting,
\* and scenario A.
PlanInputs ==
    [page_count : 0..MaxPlanPages, target : 0..MaxCfgPages, max : 0..MaxCfgPages,
     min : 0..MaxCfgPages]
    \cup {ScenarioA}

InitPlan ==
    /\ \E in \in PlanInputs :
          /\ page_count = in.page_count
          /\ cfg = [BaseCfg EXCEPT !.target_pages_per_chunk = in.target,
                                   !.max_pages_per_chunk = in.max,
                                   !.min_pages_per_chunk = in.min]
    /\ p = 1
    /\ chunks = <<>>
    /\ plan_pc = "loop"
    /\ JobIdle
    /\ PolIdle
    /\ GwIdle
    /\ PostIdle
    /\ RunIdle

NextPlan == PlanStep \/ PlanReturn

SpecPlan == InitPlan /\ [][NextPlan]_vars

\* Planner inputs at the top of the word range: documents of nearly, and of
\* exactly, the largest page count, under chunk sizes up to the largest value.
WideInputs ==
    [page_count : {Modulus - k : k \in 1..4},
     target : {Modulus \div 4, Modulus \div 2, Modulus - 1},
     max : {Modulus \div 4, Modulus \div 2, Modulus - 1},
     min : {0, 3}]

\* One of the additions of the iteration at cursor q does not fit the word:
\* p + target, p + maxp (evaluated when span > maxp), end - p + 1, end + 1.
Overflows(c, pages, q, empty) ==
    LET sum0 == q + Target(c)
        end0 == Min(WrappingSub(WrappingAdd(q, Target(c)), 1), pages)
        span == WrappingAdd(WrappingSub(end0, q), 1)
    IN  \/ sum0 > Modulus - 1
        \/ end0 < q
        \/ end0 - q + 1 > Modulus - 1
        \/ span > MaxP(c) /\ q + MaxP(c) > Modulus - 1
        \/ ChunkEnd(c, pages, q, empty) + 1 > Modulus - 1

\* One iteration of the loop as a release build runs it (the arithmetic wraps).
PlanStepWide ==
    /\ Len(chunks) < MaxChunks
    /\ PlanStep

\* One iteration of the loop as a build with overflow checks runs it: the
\* arithmetic that does not fit panics.
PlanPanic ==
    /\ plan_pc = "loop"
    /\ p <= page_count
    /\ Overflows(cfg, page_count, p, chunks = <<>>)
    /\ plan_pc' = "panic"
    /\ UNCHANGED <<cfg, page_count, p, chunks, jobVars, sideVars>>

InitPlanWide ==
    /\ \E in \in WideInputs :
          /\ page_count = in.page_count
          /\ cfg = [BaseCfg EXCEPT !.target_pages_per_chunk = in.target,
                                   !.max_pages_per_chunk = in.max,
                                   !.min_pages_per_chunk = in.min]
    /\ p = 1
    /\ chunks = <<>>
    /\ plan_pc = "loop"
    /\ JobIdle
    /\ PolIdle
    /\ GwIdle
    /\ PostIdle
    /\ RunIdle

NextPlanWide == PlanStepWide \/ PlanReturn \/ PlanPanic

SpecPlanWide == InitPlanWide /\ [][NextPlanWide]_vars

\* ------------------------------------------------------------ policy::decide

DecisionOfEngineOcr(c, tier) ==
    CASE tier = "HighText" ->
            [tier |-> tier, chosen_engine |-> c.high_text_engine, do_ocr |-> FALSE]
      [] tier = "MixedText" ->
            [tier |-> tier, chosen_engine |-> c.mixed_text_engine, do_ocr |-> c.docling_do_ocr]
      [] tier = "Scan" ->
            [tier |-> tier, chosen_engine |-> c.scan_engine, do_ocr |-> c.docling_do_ocr]
\* The tier, engine and OCR flag of one tier (the match arms of decide and forced).
DecisionOf(c, tier) ==
    CASE tier = "HighText" ->
            [tier |-> tier, chosen_engine |-> c.high_text_engine, do_ocr |-> FALSE]
      [] tier = "MixedText" ->
            [tier |-> tier, chosen_engine |-> c.mixed_text_engine, do_ocr |-> c.docling_do_ocr]
      [] tier = "Scan" ->
            [tier |-> tier, chosen_engine |-> c.scan_engine, do_ocr |-> TRUE]

ForcedMixed(c) == DecisionOf(c, "MixedText")
ForcedIgnoringCase(c) ==
    DecisionOf(c, CASE c.forced_tier \in {"HIGH_TEXT", "high_text"} -> "HighText"
                    [] c.forced_tier = "MIXED_TEXT" -> "MixedText"
                    [] c.forced_tier = "SCAN" -> "Scan"
                    [] OTHER -> "MixedText")
Forced(c) ==
    DecisionOf(c, CASE c.forced_tier = "HIGH_TEXT" -> "HighText"
                    [] c.forced_tier = "MIXED_TEXT" -> "MixedText"
                    [] c.forced_tier = "SCAN" -> "Scan"
                    [] OTHER -> "MixedText")

DecideScanFirst(c, pr) ==
    IF c.forced_tier # "AUTO"
    THEN Forced(c)
    ELSE DecisionOf(c,
            IF pr.avg_chars_per_page <= c.max_avg_chars_per_page_for_scan
            THEN "Scan"
            ELSE IF /\ pr.avg_chars_per_page >= c.min_avg_chars_per_page_for_high_text
                    /\ pr.garbage_ratio <= c.max_garbage_ratio_for_high_text
                    /\ pr.whitespace_ratio <= c.max_whitespace_ratio_for_high_text
                 THEN "HighText"
                 ELSE "MixedText")
DecideShortIsHigh(c, pr) ==
    IF c.forced_tier # "AUTO"
    THEN Forced(c)
    ELSE DecisionOf(c,
            IF /\ pr.avg_chars_per_page <= c.min_avg_chars_per_page_for_high_text
               /\ pr.garbage_ratio <= c.max_garbage_ratio_for_high_text
               /\ pr.whitespace_ratio <= c.max_whitespace_ratio_for_high_text
            THEN "HighText"
            ELSE IF pr.avg_chars_per_page <= c.max_avg_chars_per_page_for_scan
                 THEN "Scan"
                 ELSE "MixedText")
\* Ratios are counted in hundredths.
Decide(c, pr) ==
    IF c.forced_tier # "AUTO"
    THEN Forced(c)
    ELSE DecisionOf(c,
            IF /\ pr.avg_chars_per_page >= c.min_avg_chars_per_page_for_high_text
               /\ pr.garbage_ratio <= c.max_garbage_ratio_for_high_text
               /\ pr.whitespace_ratio <= c.max_whitespace_ratio_for_high_text
            THEN "HighText"
            ELSE IF pr.avg_chars_per_page <= c.max_avg_chars_per_page_for_scan
                 THEN "Scan"
                 ELSE "MixedText")

\* ------------------------------------------------------- the engine's answers

\* What Engine::probe_pdf can return: Err, or a ProbeOut.
ProbeOutcomes ==
    {[kind |-> "err", page_count |-> 0, avg_chars_per_page |-> 0,
      garbage_ratio |-> 0, whitespace_ratio |-> 0]}
    \cup
    {[kind |-> "resp", page_count |-> n, avg_chars_per_page |-> a,
      garbage_ratio |-> g, whitespace_ratio |-> 20] :
        n \in 0..(MaxJobPages + 1), a \in {10, 500, 5000}, g \in {0}}

\* What a convert call can return: Err (an IPC-level error: spawn failure,
\* timeout, non-zero exit, malformed response), or a ConvertOut with ok true or
\* false.  `missing` says whether the text "missing pypdf import" occurs in the
\* error message, respectively in one of the warnings.
ConvertOutcomes ==
    {[kind |-> "err", ok |-> FALSE, missing |-> m] : m \in BOOLEAN}
    \cup
    {[kind |-> "resp", ok |-> o, missing |-> m] : o \in BOOLEAN, m \in BOOLEAN}

NoOut == [kind |-> "none", ok |-> FALSE, missing |-> FALSE]

\* What Engine::split_pdf can return for `ranges`: Err, one output per range, or
\* (the engine is not bound to the request) a list that lacks the last range.
SplitChunks(ranges) ==
    [k \in 1..Len(ranges) |->
        [chunk_index |-> k - 1, start_page |-> ranges[k].start_page,
         end_page |-> ranges[k].end_page, path |-> <<"split", k - 1>>]]

SplitOutcomes(ranges) ==
    {[kind |-> "err", outputs |-> <<>>],
     [kind |-> "resp", outputs |-> SplitChunks(ranges)],
     [kind |-> "resp", outputs |-> SubSeq(SplitChunks(ranges), 1, Len(ranges) - 1)]}

Call(op, chunk, fallback) ==
    [op |-> op, chunk |-> chunk, fallback |-> fallback]

\* ------------------------------------------------------- Pipeline::run_job

InputPdf == <<"input">>

Fail ==
    /\ pc' = "failed"
    /\ job_out' = "err"

\* The ticks an engine call can take.  The clock is read by the deadline check
\* alone, which is skipped when job_timeout_seconds = 0: the clock is followed
\* only under a job timeout.
CallTicks(c) == IF c.job_timeout_seconds > 0 THEN 0..MaxCallTicks ELSE {0}

\* The engine call that is made now returns after d ticks.
Tick(d) ==
    /\ elapsed + d <= MaxElapsed
    /\ elapsed' = elapsed + d

\* util::hash_file accepts the hashing mode.
KnownHashMode(m) == m \in {"full_sha256", "fast_2x16mb"}

\* job_dir.exists() && !cfg.global.resume
RefusesExistingJobDir(c, exists) == exists /\ ~c.resume

\* cli::run up to the call of run_job: the input is hashed for the job id, an
\* existing job directory is refused when resume is off, the job directories
\* and the engine are set up.  (The file system is taken to succeed.)
RunSetup ==
    /\ pc = "cli"
    /\ IF KnownHashMode(cfg.hashing_mode) /\ ~RefusesExistingJobDir(cfg, prior_run)
       THEN pc' = "start" /\ UNCHANGED job_out
       ELSE Fail
    /\ UNCHANGED <<cfg, planVars, sideVars, file_bytes, probe_res, decision, plan,
                   chunk_inputs, i, out, used_fallback, chunk_reports, markdown_parts,
                   calls, elapsed, split_failed, checked_at, removed>>

\* probe::probe_pdf, the size check: the input is rejected before the engine is
\* called.
ProbeTooLarge ==
    /\ pc = "start"
    /\ file_bytes > cfg.max_input_file_bytes
    /\ Fail
    /\ UNCHANGED <<cfg, planVars, sideVars, file_bytes, probe_res, decision, plan, chunk_inputs,
                   i, out, used_fallback, chunk_reports, markdown_parts, calls,
                   elapsed, split_failed, checked_at, removed>>

ProbeRejectsZero(c, r) == r.page_count = 0
\* The page-count checks made on the engine's answer.
ProbeRejects(c, r) == r.page_count > c.max_input_pages \/ r.page_count = 0

\* probe::probe_pdf, the engine call and the page-count checks.
ProbeCall ==
    /\ pc = "start"
    /\ ~(file_bytes > cfg.max_input_file_bytes)
    /\ \E r \in ProbeOutcomes, d \in CallTicks(cfg) :
          /\ Tick(d)
          /\ calls' = Append(calls, Call("probe", -1, FALSE))
          /\ IF r.kind = "err" \/ ProbeRejects(cfg, r)
             THEN Fail /\ UNCHANGED probe_res
             ELSE /\ probe_res' = [page_count |-> r.page_count,
                                   file_bytes |-> file_bytes,
                                   avg_chars_per_page |-> r.avg_chars_per_page,
                                   garbage_ratio |-> r.garbage_ratio,
                                   whitespace_ratio |-> r.whitespace_ratio]
                  /\ pc' = "plan"
                  /\ UNCHANGED job_out
    /\ UNCHANGED <<cfg, planVars, sideVars, file_bytes, decision, plan, chunk_inputs, i, out,
                   used_fallback, chunk_reports, markdown_parts, split_failed, checked_at, removed>>

RequireChunkingAnd(c, pr) ==
    /\ pr.page_count > c.require_chunking_over_pages
    /\ pr.file_bytes > c.require_chunking_over_bytes
RequireChunking(c, pr) ==
    \/ pr.page_count > c.require_chunking_over_pages
    \/ pr.file_bytes > c.require_chunking_over_bytes

\* The collapse-to-single rule.
ExecutedPlan(c, pr) ==
    LET planned == FromPageCount(c, pr.page_count)
    IN  IF ~RequireChunking(c, pr) /\ Len(planned.chunks) > 1
        THEN Single(planned.page_count, c.strategy)
        ELSE planned

\* decide, from_probe, the native_text backend check and the collapse rule.
\* (Creating the chunks directory is file-system glue and is taken to succeed.)
ClassifyAndPlan ==
    /\ pc = "plan"
    /\ decision' = Decide(cfg, probe_res)
    /\ IF decision'.chosen_engine = "native_text" /\ cfg.native_text_backend # "python_pypdf"
       THEN Fail /\ UNCHANGED plan
       ELSE /\ plan' = ExecutedPlan(cfg, probe_res)
            /\ pc' = "prepare"
            /\ UNCHANGED job_out
    /\ UNCHANGED <<cfg, planVars, sideVars, file_bytes, probe_res, chunk_inputs, i, out,
                   used_fallback, chunk_reports, markdown_parts, calls, elapsed,
                   split_failed, checked_at, removed>>

\* prepare_chunks needs the split engine for this plan.
NeedsSplit(pl) == pl.strategy = "physical_split" /\ Len(pl.chunks) > 1

\* The chunk inputs prepare_chunks builds from the outputs of the split call.
SplitInputs(outputs) ==
    [k \in 1..Len(outputs) |->
        [input_pdf |-> outputs[k].path, start_page |-> outputs[k].start_page,
         end_page |-> outputs[k].end_page, use_page_range |-> FALSE, temp_file |-> TRUE]]

LogicalInputsWhole(pl) ==
    [k \in 1..Len(pl.chunks) |->
        [input_pdf |-> InputPdf, start_page |-> pl.chunks[k].start_page,
         end_page |-> pl.chunks[k].end_page,
         use_page_range |-> FALSE, temp_file |-> FALSE]]
LogicalInputsTemp(pl) ==
    [k \in 1..Len(pl.chunks) |->
        [input_pdf |-> InputPdf, start_page |-> pl.chunks[k].start_page,
         end_page |-> pl.chunks[k].end_page,
         use_page_range |-> (pl.strategy = "page_range" /\ Len(pl.chunks) > 1),
         temp_file |-> TRUE]]
\* The chunk inputs prepare_chunks builds without splitting.
LogicalInputs(pl) ==
    [k \in 1..Len(pl.chunks) |->
        [input_pdf |-> InputPdf, start_page |-> pl.chunks[k].start_page,
         end_page |-> pl.chunks[k].end_page,
         use_page_range |-> (pl.strategy = "page_range" /\ Len(pl.chunks) > 1),
         temp_file |-> FALSE]]

\* The plan of the materialization fallback.
FallbackPlan(pl) == [pl EXCEPT !.strategy = "page_range"]

\* prepare_chunks with a split call, and the fallback of run_job when it fails.
PrepareSplit ==
    /\ pc = "prepare"
    /\ NeedsSplit(plan)
    /\ \E r \in SplitOutcomes(plan.chunks), d \in CallTicks(cfg) :
          /\ Tick(d)
          /\ calls' = Append(calls, Call("split", -1, FALSE))
          /\ IF r.kind = "err"
             THEN IF cfg.strategy = "physical_split"
                  THEN /\ chunk_inputs' = LogicalInputs(FallbackPlan(plan))
                       /\ split_failed' = TRUE
                       /\ pc' = "loop"
                       /\ UNCHANGED job_out
                  ELSE /\ Fail
                       /\ split_failed' = TRUE
                       /\ UNCHANGED chunk_inputs
             ELSE /\ chunk_inputs' = SplitInputs(r.outputs)
                  /\ pc' = "loop"
                  /\ UNCHANGED <<job_out, split_failed>>
    /\ UNCHANGED <<cfg, planVars, sideVars, file_bytes, probe_res, decision, plan, i, out,
                   used_fallback, chunk_reports, markdown_parts, checked_at, removed>>

\* prepare_chunks without a split call: it cannot fail.
PrepareLogical ==
    /\ pc = "prepare"
    /\ ~NeedsSplit(plan)
    /\ chunk_inputs' = LogicalInputs(plan)
    /\ pc' = "loop"
    /\ UNCHANGED <<cfg, planVars, sideVars, file_bytes, probe_res, decision, plan, i, out,
                   used_fallback, chunk_reports, markdown_parts, calls, elapsed,
                   split_failed, job_out, checked_at, removed>>

\* started.elapsed().as_secs() > job_timeout_seconds, as_secs() being whole seconds.
JobTimedOut(c, e) ==
    c.job_timeout_seconds > 0 /\ (e \div TicksPerSec) > c.job_timeout_seconds

AtChunkUnrecorded == pc \in {"loop", "record"} /\ i < Len(chunk_inputs)
AtChunkAfterFailure == pc \in {"loop", "failed"} /\ i < Len(chunk_inputs)
\* The head of the chunk loop, with a chunk left.
AtChunk == pc = "loop" /\ i < Len(chunk_inputs)

\* The job deadline check at the head of the chunk loop.
ChunkDeadline ==
    /\ AtChunk
    /\ JobTimedOut(cfg, elapsed)
    /\ Fail
    /\ checked_at' = elapsed
    /\ UNCHANGED <<cfg, planVars, sideVars, file_bytes, probe_res, decision, plan, chunk_inputs,
                   i, out, used_fallback, chunk_reports, markdown_parts, calls,
                   elapsed, split_failed, removed>>

\* needs_fallback of the native attempt.
NeedsFallback(o) ==
    IF o.kind = "resp" THEN ~o.ok \/ o.missing ELSE o.missing

FallbackAlways(engine, o) == NeedsFallback(o)
\* The engine-choice fallback is taken.
TakesFallback(engine, o) == engine = "native_text" /\ NeedsFallback(o)

\* The first convert call of chunk i, by the policy-selected engine.
ConvertFirst ==
    /\ AtChunk
    /\ ~JobTimedOut(cfg, elapsed)
    /\ decision.chosen_engine \in {"docling", "native_text"}
    /\ \E r \in ConvertOutcomes, d \in CallTicks(cfg) :
          /\ Tick(d)
          /\ calls' = Append(calls, Call(decision.chosen_engine, i, FALSE))
          /\ out' = r
          /\ pc' = IF TakesFallback(decision.chosen_engine, r) THEN "fallback" ELSE "record"
    /\ used_fallback' = FALSE
    /\ checked_at' = elapsed
    /\ UNCHANGED <<cfg, planVars, sideVars, file_bytes, probe_res, decision, plan, chunk_inputs,
                   i, chunk_reports, markdown_parts, split_failed, job_out, removed>>

\* An engine name that is neither docling nor native_text: no call is made.
ConvertUnknownEngine ==
    /\ AtChunk
    /\ ~JobTimedOut(cfg, elapsed)
    /\ decision.chosen_engine \notin {"docling", "native_text"}
    /\ out' = [kind |-> "err", ok |-> FALSE, missing |-> FALSE]
    /\ used_fallback' = FALSE
    /\ pc' = "record"
    /\ checked_at' = elapsed
    /\ UNCHANGED <<cfg, planVars, sideVars, file_bytes, probe_res, decision, plan, chunk_inputs,
                   i, chunk_reports, markdown_parts, calls, elapsed, split_failed,
                   job_out, removed>>

\* The native attempt needs the fallback: the same request goes to docling.
ConvertFallback ==
    /\ pc = "fallback"
    /\ \E r \in ConvertOutcomes, d \in CallTicks(cfg) :
          /\ Tick(d)
          /\ calls' = Append(calls, Call("docling", i, TRUE))
          /\ out' = r
    /\ used_fallback' = TRUE
    /\ pc' = "record"
    /\ UNCHANGED <<cfg, planVars, sideVars, file_bytes, probe_res, decision, plan, chunk_inputs,
                   i, chunk_reports, markdown_parts, split_failed, job_out, checked_at, removed>>

FallbackNote == "native_text failed; fell back to docling"

EngineWarnings(o) == IF o.missing THEN <<"missing pypdf import">> ELSE <<>>

AcceptedAny(o) == o.kind = "resp"
\* The final result of the chunk is Ok(out) with out.ok.
Accepted(o) == o.kind = "resp" /\ o.ok

\* The final result of chunk i is an error or has ok:false: run_job returns Err.
ChunkFailed ==
    /\ pc = "record"
    /\ ~Accepted(out)
    /\ Fail
    /\ UNCHANGED <<cfg, planVars, sideVars, file_bytes, probe_res, decision, plan, chunk_inputs,
                   i, out, used_fallback, chunk_reports, markdown_parts, calls,
                   elapsed, split_failed, checked_at, removed>>

ChunkReportNoNote(k, ch, o, fb) ==
    [chunk_index |-> k, start_page |-> ch.start_page,
     end_page |-> ch.end_page, ok |-> o.ok, warnings |-> EngineWarnings(o)]
ChunkReportByPage(k, ch, o, fb) ==
    [chunk_index |-> ch.start_page - 1, start_page |-> ch.start_page,
     end_page |-> ch.end_page, ok |-> o.ok,
     warnings |-> IF fb THEN Append(EngineWarnings(o), FallbackNote) ELSE EngineWarnings(o)]
\* The ChunkReport pushed for the k-th chunk input ch (0-based), whose final
\* result is o; fb is used_fallback.
ChunkReport(k, ch, o, fb) ==
    [chunk_index |-> k, start_page |-> ch.start_page,
     end_page |-> ch.end_page, ok |-> o.ok,
     warnings |-> IF fb THEN Append(EngineWarnings(o), FallbackNote) ELSE EngineWarnings(o)]

\* The report and the markdown of chunk i are recorded.  (Writing chunk_NNNNN.json
\* is file-system glue and is taken to succeed.)
ChunkRecord ==
    /\ pc = "record"
    /\ Accepted(out)
    /\ chunk_reports' = Append(chunk_reports,
                               ChunkReport(i, chunk_inputs[i + 1], out, used_fallback))
    /\ markdown_parts' = Append(markdown_parts, i)
    /\ i' = i + 1
    /\ out' = NoOut
    /\ used_fallback' = FALSE
    /\ pc' = "loop"
    /\ UNCHANGED <<cfg, planVars, sideVars, file_bytes, probe_res, decision, plan, chunk_inputs,
                   calls, elapsed, split_failed, job_out, checked_at, removed>>

\* merge_markdown returns Err when remove_by_regex is set and one of the
\* configured patterns does not compile.
MergeFails(c) == c.remove_by_regex /\ ~c.regex_patterns_valid

CleanedUpAlways(c, inputs) ==
    {inputs[k].input_pdf : k \in {n \in 1..Len(inputs) : inputs[n].temp_file}}
\* The files cleanup_intermediates removes.
CleanedUp(c, inputs) ==
    IF c.keep_split_pdfs
    THEN {}
    ELSE {inputs[k].input_pdf : k \in {n \in 1..Len(inputs) : inputs[n].temp_file}}

\* Every chunk is recorded: merge, postprocess, cleanup and Ok(JobOutput).
Finish ==
    /\ pc = "loop"
    /\ ~(i < Len(chunk_inputs))
    /\ IF MergeFails(cfg)
       THEN Fail /\ UNCHANGED removed
       ELSE /\ removed' = IF ~cfg.keep_intermediates
                          THEN CleanedUp(cfg, chunk_inputs)
                          ELSE {}
            /\ pc' = "done"
            /\ job_out' = "ok"
    /\ UNCHANGED <<cfg, planVars, sideVars, file_bytes, probe_res, decision, plan, chunk_inputs,
                   i, out, used_fallback, chunk_reports, markdown_parts, calls,
                   elapsed, checked_at, split_failed>>

ArtifactsIndexFirst(c) ==
    (IF c.write_index_json THEN <<"index.json">> ELSE <<>>)
        \o (IF c.write_markdown THEN <<"transcript.md">> ELSE <<>>)
        \o (IF c.write_text THEN <<"transcript.txt">> ELSE <<>>)
        \o (IF c.write_report_json THEN <<"report.json">> ELSE <<>>)
\* The files cli::run writes after run_job returned Ok, in the order of the writes.
Artifacts(c) ==
    (IF c.write_markdown THEN <<"transcript.md">> ELSE <<>>)
        \o (IF c.write_text THEN <<"transcript.txt">> ELSE <<>>)
        \o (IF c.write_report_json THEN <<"report.json">> ELSE <<>>)
        \o (IF c.write_index_json THEN <<"index.json">> ELSE <<>>)

\* cli::run after run_job returned Ok: the enabled final artifacts and then
\* index.json are written.  (The writes are taken to succeed.)
WriteArtifacts ==
    /\ pc = "done"
    /\ written' = Artifacts(cfg)
    /\ pc' = "exit"
    /\ UNCHANGED <<cfg, planVars, polVars, gwVars, postVars, prior_run, ambient, job_ids,
                   file_bytes, probe_res, decision, plan, chunk_inputs, i, out,
                   used_fallback, chunk_reports, markdown_parts, calls, elapsed,
                   checked_at, split_failed, removed, job_out>>

PlanIdle ==
    /\ page_count = 0
    /\ p = 1
    /\ chunks = <<>>
    /\ plan_pc = "idle"

Strategies == {"physical_split", "page_range"}

\* Configurations with a job timeout.
ClockConfigs ==
    {[BaseCfg EXCEPT !.strategy = st, !.job_timeout_seconds = 1,
                     !.high_text_engine = he, !.native_text_backend = nb] :
        st \in Strategies, he \in {"native_text", "bogus"},
        nb \in {"python_pypdf", "other"}}

\* Configurations with settings the run rejects.
ErrorConfigs ==
    {[BaseCfg EXCEPT !.strategy = st, !.high_text_engine = he,
                     !.native_text_backend = nb, !.hashing_mode = hm] :
        st \in Strategies, he \in {"native_text", "bogus"},
        nb \in {"python_pypdf", "other"}, hm \in {"full_sha256", "sha1"}}

\* The settings of [output]: everything, nothing, and the index without the text.
OutputSettings ==
    {[md |-> TRUE, txt |-> TRUE, report |-> TRUE, index |-> TRUE],
     [md |-> FALSE, txt |-> FALSE, report |-> FALSE, index |-> FALSE],
     [md |-> TRUE, txt |-> FALSE, report |-> TRUE, index |-> TRUE]}

\* Configurations that differ in what the end of the job does.
EndConfigs ==
    {[BaseCfg EXCEPT !.strategy = st, !.keep_intermediates = ki, !.keep_split_pdfs = ks] :
        st \in Strategies, ki \in BOOLEAN, ks \in BOOLEAN}
    \cup {[BaseCfg EXCEPT !.strategy = st, !.keep_intermediates = FALSE,
                          !.keep_split_pdfs = FALSE, !.regex_patterns_valid = rv,
                          !.write_markdown = o.md, !.write_text = o.txt,
                          !.write_report_json = o.report, !.write_index_json = o.index] :
            st \in Strategies, rv \in BOOLEAN, o \in OutputSettings}
    \cup {[BaseCfg EXCEPT !.strategy = st, !.max_parallel_chunks = 4] : st \in Strategies}

\* Configurations of a run that finds the job directory of an earlier run.
RerunConfigs == {[BaseCfg EXCEPT !.strategy = st, !.resume = r] : st \in Strategies, r \in BOOLEAN}

\* A configuration whose chunking.strategy is neither of the two names
\* prepare_chunks compares with: Config::load does not validate the string.
OtherStrategyConfigs == {[BaseCfg EXCEPT !.strategy = "logical"]}

Init ==
    /\ \/ cfg \in ClockConfigs \cup ErrorConfigs \cup EndConfigs \cup OtherStrategyConfigs
          /\ prior_run = FALSE
       \/ cfg \in RerunConfigs /\ prior_run = TRUE
    /\ PlanIdle
    /\ pc = "cli"
    /\ file_bytes \in 1..3
    /\ probe_res = [page_count |-> 0, file_bytes |-> 0, avg_chars_per_page |-> 0,
                    garbage_ratio |-> 0, whitespace_ratio |-> 0]
    /\ decision = [tier |-> "MixedText", chosen_engine |-> "docling", do_ocr |-> FALSE]
    /\ plan = [page_count |-> 0, chunks |-> <<>>, strategy |-> ""]
    /\ chunk_inputs = <<>>
    /\ i = 0
    /\ out = NoOut
    /\ used_fallback = FALSE
    /\ chunk_reports = <<>>
    /\ markdown_parts = <<>>
    /\ calls = <<>>
    /\ elapsed = 0
    /\ checked_at = 0
    /\ split_failed = FALSE
    /\ removed = {}
    /\ job_out = "none"
    /\ PolIdle
    /\ GwIdle
    /\ PostIdle
    /\ written = <<>>
    /\ IdIdle

Next ==
    \/ RunSetup
    \/ ProbeTooLarge
    \/ ProbeCall
    \/ ClassifyAndPlan
    \/ PrepareSplit
    \/ PrepareLogical
    \/ ChunkDeadline
    \/ ConvertFirst
    \/ ConvertUnknownEngine
    \/ ConvertFallback
    \/ ChunkFailed
    \/ ChunkRecord
    \/ Finish
    \/ WriteArtifacts

Spec == Init /\ [][Next]_vars

\* ------------------------------------------ policy::decide on drawn inputs

\* Sampled statistics: the values of tests/policy_decision.rs (5000, 0.0, 0.2 and
\* 10, 0.0, 0.1) and values on and next to the default thresholds.
AvgSamples == {10, 80, 81, 1199, 1200, 5000}
GarbageSamples == {0, 2, 3}
WhitespaceSamples == {10, 20, 55, 56}

\* A ProbeResult with these statistics.
MkProbe(avg, garbage, ws) ==
    [page_count |-> 1, file_bytes |-> 1, avg_chars_per_page |-> avg,
     garbage_ratio |-> garbage, whitespace_ratio |-> ws]

\* The default thresholds, and thresholds with T_scan >= T_high.
HighThresholds == {1200, 80}
ScanThresholds == {80, 1200}

ForcedTiers == {"AUTO", "HIGH_TEXT", "MIXED_TEXT", "SCAN", "high_text"}

\* decide(cfg, probe)
DecideFirst ==
    /\ pc = "decide"
    /\ decision' = Decide(cfg, probe_res)
    /\ pc' = "decide_other"
    /\ UNCHANGED <<cfg, planVars, gwVars, postVars, runVars,
                   probe_other, decision_other, file_bytes,
                   probe_res, plan, chunk_inputs, i, out, used_fallback, chunk_reports,
                   markdown_parts, calls, elapsed, checked_at, split_failed, removed,
                   job_out>>

\* decide(cfg, other probe), under the same configuration
DecideOther ==
    /\ pc = "decide_other"
    /\ decision_other' = Decide(cfg, probe_other)
    /\ pc' = "decided"
    /\ UNCHANGED <<cfg, planVars, gwVars, postVars, runVars,
                   probe_other, decision, file_bytes,
                   probe_res, plan, chunk_inputs, i, out, used_fallback, chunk_reports,
                   markdown_parts, calls, elapsed, checked_at, split_failed, removed,
                   job_out>>

InitPolicy ==
    /\ \E ft \in ForcedTiers, th \in HighThresholds, ts \in ScanThresholds,
          ocr \in BOOLEAN, se \in {"docling", "native_text"} :
          cfg = [BaseCfg EXCEPT !.forced_tier = ft,
                                !.min_avg_chars_per_page_for_high_text = th,
                                !.max_avg_chars_per_page_for_scan = ts,
                                !.docling_do_ocr = ocr,
                                !.high_text_engine = "native_text",
                                !.mixed_text_engine = "docling",
                                !.scan_engine = se]
    /\ PlanIdle
    /\ GwIdle
    /\ PostIdle
    /\ RunIdle
    /\ pc = "decide"
    /\ file_bytes = 1
    /\ \E a \in AvgSamples, g \in GarbageSamples, w \in WhitespaceSamples :
          probe_res = MkProbe(a, g, w)
    /\ \E a \in {10, 1200, 5000}, g \in {0, 3}, w \in {20, 56} :
          probe_other = MkProbe(a, g, w)
    /\ decision = [tier |-> "MixedText", chosen_engine |-> "docling", do_ocr |-> FALSE]
    /\ decision_other = [tier |-> "MixedText", chosen_engine |-> "docling", do_ocr |-> FALSE]
    /\ plan = [page_count |-> 0, chunks |-> <<>>, strategy |-> ""]
    /\ chunk_inputs = <<>>
    /\ i = 0
    /\ out = NoOut
    /\ used_fallback = FALSE
    /\ chunk_reports = <<>>
    /\ markdown_parts = <<>>
    /\ calls = <<>>
    /\ elapsed = 0
    /\ checked_at = 0
    /\ split_failed = FALSE
    /\ removed = {}
    /\ job_out = "none"

NextPolicy == DecideFirst \/ DecideOther

SpecPolicy == InitPolicy /\ [][NextPolicy]_vars

\* --------------------------------------------------- PythonEngine::run_json

\* The child is an arbitrary program: `out_len` and `err_len` are the bytes it
\* would write to stdout and stderr, `valid` says whether its complete stdout is
\* a well-formed response.  On stderr it writes nothing or more than the pipe holds.
ChildPrograms ==
    [out_len : 0..MaxStreamBytes, err_len : {0, MaxStreamBytes}, valid : BOOLEAN]

Running == child.state = "running"

\* The reader threads exist from the entry of wait_with_timeout (respectively
\* wait_with_output) on.
ReadersStarted == gw_pc \in {"poll", "check", "join_exit", "join_kill"}

\* read_to_end returns: the pipe is drained and its write end is closed.
Eof(pipe) == pipe = 0 /\ ~Running

\* --- the child

ChildReadStdin ==
    /\ Running
    /\ stdin_pipe > 0
    /\ stdin_pipe' = stdin_pipe - 1
    /\ UNCHANGED <<nonGwVars, gw_pc, gw_op, gw_timeout, req_left,
                   stdout_pipe, stderr_pipe, out_buf, err_buf, child, gw_elapsed,
                   gw_result>>

\* The child writes a byte to stdout; it blocks while the pipe is full.
ChildWriteStdout ==
    /\ Running
    /\ child.wrote_out < child.prog.out_len
    /\ stdout_pipe < PipeCap
    /\ stdout_pipe' = stdout_pipe + 1
    /\ child' = [child EXCEPT !.wrote_out = @ + 1]
    /\ UNCHANGED <<nonGwVars, gw_pc, gw_op, gw_timeout, req_left,
                   stdin_pipe, stderr_pipe, out_buf, err_buf, gw_elapsed, gw_result>>

ChildWriteStderr ==
    /\ Running
    /\ child.wrote_err < child.prog.err_len
    /\ stderr_pipe < PipeCap
    /\ stderr_pipe' = stderr_pipe + 1
    /\ child' = [child EXCEPT !.wrote_err = @ + 1]
    /\ UNCHANGED <<nonGwVars, gw_pc, gw_op, gw_timeout, req_left,
                   stdin_pipe, stdout_pipe, out_buf, err_buf, gw_elapsed, gw_result>>

\* The child exits by itself, with status 0 or 1, at any point of its run.
ChildExit ==
    /\ Running
    /\ \E st \in {0, 1} : child' = [child EXCEPT !.state = "exited", !.status = st]
    /\ UNCHANGED <<nonGwVars, gw_pc, gw_op, gw_timeout, req_left,
                   stdin_pipe, stdout_pipe, stderr_pipe, out_buf, err_buf,
                   gw_elapsed, gw_result>>

\* --- the calling thread

Return(kind, stderr, parsed) ==
    /\ gw_pc' = "returned"
    /\ gw_result' = [kind |-> kind, stderr |-> stderr, parsed |-> parsed]

\* stdin.write_all, one byte of it: it blocks while the pipe is full.
GwWrite ==
    /\ gw_pc = "write"
    /\ req_left > 0
    /\ Running
    /\ stdin_pipe < PipeCap
    /\ req_left' = req_left - 1
    /\ stdin_pipe' = stdin_pipe + 1
    /\ UNCHANGED <<nonGwVars, gw_pc, gw_op, gw_timeout, stdout_pipe,
                   stderr_pipe, out_buf, err_buf, child, gw_elapsed, gw_result>>

\* stdin.write_all fails with a broken pipe when the child has exited: the `?`
\* returns the error.
GwWriteBroken ==
    /\ gw_pc = "write"
    /\ req_left > 0
    /\ ~Running
    /\ Return("err_write", 0, 0)
    /\ UNCHANGED <<nonGwVars, gw_op, gw_timeout, req_left, stdin_pipe,
                   stdout_pipe, stderr_pipe, out_buf, err_buf, child, gw_elapsed>>

\* The request is written; stdin is dropped and the wait begins: the reader
\* threads are spawned and `start` is taken.
GwWritten ==
    /\ gw_pc = "write"
    /\ req_left = 0
    /\ gw_pc' = "poll"
    /\ gw_elapsed' = 0
    /\ UNCHANGED <<nonGwVars, gw_op, gw_timeout, req_left, stdin_pipe,
                   stdout_pipe, stderr_pipe, out_buf, err_buf, child, gw_result>>

\* --- the reader threads

ReadStdout ==
    /\ ReadersStarted
    /\ stdout_pipe > 0
    /\ stdout_pipe' = stdout_pipe - 1
    /\ out_buf' = out_buf + 1
    /\ UNCHANGED <<nonGwVars, gw_pc, gw_op, gw_timeout, req_left,
                   stdin_pipe, stderr_pipe, err_buf, child, gw_elapsed, gw_result>>

ReadStderr ==
    /\ ReadersStarted
    /\ stderr_pipe > 0
    /\ stderr_pipe' = stderr_pipe - 1
    /\ err_buf' = err_buf + 1
    /\ UNCHANGED <<nonGwVars, gw_pc, gw_op, gw_timeout, req_left,
                   stdin_pipe, stdout_pipe, out_buf, child, gw_elapsed, gw_result>>

\* --- wait_with_timeout

\* child.try_wait() (with no timeout: child.wait_with_output(), which returns
\* once the child has exited).
GwTryWait ==
    /\ gw_pc = "poll"
    /\ IF ~Running
       THEN gw_pc' = "join_exit"
       ELSE gw_timeout.some /\ gw_pc' = "check"
    /\ UNCHANGED <<nonGwVars, gw_op, gw_timeout, req_left, stdin_pipe,
                   stdout_pipe, stderr_pipe, out_buf, err_buf, child, gw_elapsed,
                   gw_result>>

\* The polls after which a timeout of t seconds has passed.  The clock is
\* followed for MaxTimeoutSecs seconds: a longer timeout passes at that point.
PollLimit(t) == Min(t.secs, MaxTimeoutSecs) * TicksPerSec

TimedOutLate(e, t) == e > PollLimit(t) + 1
\* start.elapsed() > timeout
TimedOut(e, t) == e > PollLimit(t)

\* The timeout check: kill and wait, or sleep and poll again.  The child may
\* have exited by itself since try_wait; kill then fails and its error is
\* dropped.
GwCheck ==
    /\ gw_pc = "check"
    /\ IF TimedOut(gw_elapsed, gw_timeout)
       THEN /\ child' = IF Running
                        THEN [child EXCEPT !.state = "killed", !.status = 9]
                        ELSE child
            /\ gw_pc' = "join_kill"
            /\ UNCHANGED gw_elapsed
       ELSE /\ gw_elapsed' = gw_elapsed + 1
            /\ gw_pc' = "poll"
            /\ UNCHANGED child
    /\ UNCHANGED <<nonGwVars, gw_op, gw_timeout, req_left, stdin_pipe,
                   stdout_pipe, stderr_pipe, out_buf, err_buf, gw_result>>

\* output.status.success()
StatusSuccessAny(st) == TRUE
StatusSuccess(st) == st = 0

\* serde_json::from_slice(&output.stdout): the response is parsed from the
\* collected stdout alone; it is well formed when the child wrote all of a
\* valid document.
Parses(prog, stdout) == prog.valid /\ stdout = prog.out_len

\* The child has exited: both readers are joined, then run_json checks the
\* status and parses stdout.
GwJoinExit ==
    /\ gw_pc = "join_exit"
    /\ Eof(stdout_pipe)
    /\ Eof(stderr_pipe)
    /\ IF ~StatusSuccess(child.status)
       THEN Return("err_status", err_buf, 0)
       ELSE IF Parses(child.prog, out_buf)
            THEN Return("ok", 0, out_buf)
            ELSE Return("err_parse", 0, 0)
    /\ UNCHANGED <<nonGwVars, gw_op, gw_timeout, req_left, stdin_pipe,
                   stdout_pipe, stderr_pipe, out_buf, err_buf, child, gw_elapsed>>

\* The child was killed: both readers are joined and the timeout error, with
\* the collected stderr, is returned.
GwJoinKill ==
    /\ gw_pc = "join_kill"
    /\ Eof(stdout_pipe)
    /\ Eof(stderr_pipe)
    /\ Return("err_timeout", err_buf, 0)
    /\ UNCHANGED <<nonGwVars, gw_op, gw_timeout, req_left, stdin_pipe,
                   stdout_pipe, stderr_pipe, out_buf, err_buf, child, gw_elapsed>>

\* After cmd.spawn() has succeeded.
\* The methods of impl Engine for PythonEngine.
EngineOps == {"doctor", "probe_pdf", "split_pdf", "convert_docling", "convert_native_text"}

\* Some(120) of probe_pdf and Some(300) of split_pdf.
ProbeTimeoutSecs == 120
SplitTimeoutSecs == 300

TimeoutOfConvertAlways(op, c) ==
    CASE op = "doctor" -> [some |-> TRUE, secs |-> c.doctor_timeout_seconds]
      [] op = "probe_pdf" -> [some |-> TRUE, secs |-> ProbeTimeoutSecs]
      [] op = "split_pdf" -> [some |-> TRUE, secs |-> SplitTimeoutSecs]
      [] OTHER -> [some |-> TRUE, secs |-> c.chunk_timeout_seconds]
\* The timeout_seconds each method passes to run_json.
TimeoutOf(op, c) ==
    CASE op = "doctor" -> [some |-> TRUE, secs |-> c.doctor_timeout_seconds]
      [] op = "probe_pdf" -> [some |-> TRUE, secs |-> ProbeTimeoutSecs]
      [] op = "split_pdf" -> [some |-> TRUE, secs |-> SplitTimeoutSecs]
      [] OTHER -> IF c.chunk_timeout_seconds > 0
                  THEN [some |-> TRUE, secs |-> c.chunk_timeout_seconds]
                  ELSE [some |-> FALSE, secs |-> 0]

\* The drawn calls: doctor under two doctor timeouts, probe and split, and the
\* two convert methods with and without a chunk timeout.
GatewayCalls ==
    {[op |-> "doctor", cfg |-> [BaseCfg EXCEPT !.doctor_timeout_seconds = dt]] : dt \in {0, 1}}
    \cup {[op |-> op, cfg |-> BaseCfg] : op \in {"probe_pdf", "split_pdf"}}
    \cup {[op |-> op, cfg |-> [BaseCfg EXCEPT !.chunk_timeout_seconds = ct]] :
            op \in {"convert_docling", "convert_native_text"}, ct \in {0, 1}}

InitGateway ==
    /\ \E call \in GatewayCalls :
          /\ cfg = call.cfg
          /\ gw_op = call.op
          /\ gw_timeout = TimeoutOf(call.op, call.cfg)
    /\ PlanIdle
    /\ JobIdle
    /\ PolIdle
    /\ PostIdle
    /\ RunIdle
    /\ gw_pc = "write"
    /\ req_left \in {1, MaxReqBytes}
    /\ stdin_pipe = 0
    /\ stdout_pipe = 0
    /\ stderr_pipe = 0
    /\ out_buf = 0
    /\ err_buf = 0
    /\ \E pr \in ChildPrograms :
          child = [state |-> "running", status |-> 0, wrote_out |-> 0,
                   wrote_err |-> 0, prog |-> pr]
    /\ gw_elapsed = 0
    /\ gw_result = NoResult

NextGateway ==
    \/ ChildReadStdin
    \/ ChildWriteStdout
    \/ ChildWriteStderr
    \/ ChildExit
    \/ GwWrite
    \/ GwWriteBroken
    \/ GwWritten
    \/ ReadStdout
    \/ ReadStderr
    \/ GwTryWait
    \/ GwCheck
    \/ GwJoinExit
    \/ GwJoinKill

\* The calling thread and the two reader threads are scheduled fairly; nothing
\* is assumed of the child.
SpecGateway ==
    /\ InitGateway
    /\ [][NextGateway]_vars
    /\ WF_vars(GwWrite)
    /\ WF_vars(GwWriteBroken)
    /\ WF_vars(GwWritten)
    /\ WF_vars(ReadStdout)
    /\ WF_vars(ReadStderr)
    /\ WF_vars(GwTryWait)
    /\ WF_vars(GwCheck)
    /\ WF_vars(GwJoinExit)
    /\ WF_vars(GwJoinKill)

\* ------------------------------------------------- claims about the planner

PlanDone == plan_pc = "done"

\* The ranges cover [1, pages] exactly once, in increasing order.
Covers(cs, pages) ==
    /\ Len(cs) >= 1
    /\ cs[1].start_page = 1
    /\ Last(cs).end_page = pages
    /\ \A k \in 1..Len(cs) : cs[k].start_page <= cs[k].end_page
    /\ \A k \in 1..(Len(cs) - 1) : cs[k + 1].start_page = cs[k].end_page + 1

\* C1: for every page_count >= 1 the returned plan is non-empty, starts at page 1,
\* ends at page_count, every range has start <= end and every next range starts
\* at the previous end + 1.
C1_Coverage == (PlanDone /\ page_count >= 1) => Covers(chunks, page_count)

\* C1 witness: a returned plan of three or more ranges whose last range was
\* extended by the tail-merge rule.
C1_Witness ==
    /\ PlanDone
    /\ page_count >= 1
    /\ Len(chunks) >= 3
    /\ RangeLen(Last(chunks)) > Target(cfg)

\* C2 (as claimed): once the returned plan has more than one chunk, its final
\* chunk has at least min pages.
C2_FinalChunkAtLeastMin ==
    (PlanDone /\ Len(chunks) > 1) => RangeLen(Last(chunks)) >= MinP(cfg)

\* The number of chunks of the naive greedy split into target-sized chunks.
NaiveCount(pages, target) == (pages + target - 1) \div target

\* C3 (as claimed): for page_count = target + min - 1, with min >= 2 and
\* target <= max, the plan has exactly one chunk fewer than the naive greedy split.
C3_TailMergeOneFewer ==
    ( /\ PlanDone
      /\ cfg.target_pages_per_chunk >= 1
      /\ cfg.min_pages_per_chunk >= 2
      /\ cfg.target_pages_per_chunk <= cfg.max_pages_per_chunk
      /\ page_count = cfg.target_pages_per_chunk + cfg.min_pages_per_chunk - 1 )
    => Len(chunks) = NaiveCount(page_count, cfg.target_pages_per_chunk) - 1

\* C4 (as claimed): every range of a returned plan has between 1 and
\* max_pages_per_chunk pages, a range extended by the tail-merge rule included.
C4_RangeWithinMax ==
    PlanDone => \A k \in 1..Len(chunks) :
                    /\ RangeLen(chunks[k]) >= 1
                    /\ RangeLen(chunks[k]) <= MaxP(cfg)

\* ------------------------------------------------ claims about the pipeline

\* The convert calls made for chunk k, in order.
ConvertCallsOf(k) == SelectSeq(calls, LAMBDA c : c.chunk = k)

\* A native attempt that failed in one of the three ways of the claim: an
\* IPC-level error, ok:false, or the missing-capability warning.
NativeAttemptFailed(o) == o.kind = "err" \/ ~o.ok \/ o.missing

\* C5 (as claimed): with native_text selected, every failed native attempt is
\* retried with docling, so the controller never settles a chunk on a failed
\* native attempt; an IPC-level error counts like ok:false.
C5_EveryNativeFailureFallsBack ==
    (pc = "record" /\ decision.chosen_engine = "native_text" /\ ~used_fallback)
    => ~NativeAttemptFailed(out)

\* C6: a chunk gets at most two convert calls, at most one native_text attempt
\* followed by at most one docling attempt; the fallback fires at most once per
\* chunk, docling is never invoked twice for a chunk, and there is no fallback
\* when the selected engine is docling.
C6_AtMostOneFallback ==
    \A k \in 0..MaxJobPages :
        LET cs == ConvertCallsOf(k)
        IN  /\ Len(cs) <= 2
            /\ Len(cs) >= 1 => ~cs[1].fallback
            /\ Len(cs) = 2 => /\ cs[1].op = "native_text"
                              /\ cs[2].op = "docling"
                              /\ cs[2].fallback
            /\ decision.chosen_engine = "docling" => \A n \in 1..Len(cs) : ~cs[n].fallback

\* C6 witness: the second chunk of a job got a native attempt and then the
\* docling fallback.
C6_Witness ==
    /\ Len(ConvertCallsOf(1)) = 2
    /\ Len(ConvertCallsOf(0)) = 1
    /\ pc = "done"

\* C7: when the final convert result of a chunk is an error or has ok:false,
\* the next step of run_job returns Err with nothing converted, recorded or
\* merged; nothing happens after a failure; every recorded report has ok = true,
\* and a returned JobOutput has one report per chunk input.
C7_HardStop ==
    /\ [][ /\ pc # "failed"
           /\ (pc = "record" /\ ~(out.kind = "resp" /\ out.ok))
                => /\ pc' = "failed"
                   /\ job_out' = "err"
                   /\ UNCHANGED <<calls, chunk_reports, markdown_parts, i>> ]_vars
    /\ [](\A k \in 1..Len(chunk_reports) : chunk_reports[k].ok)
    /\ [](job_out = "ok" => Len(chunk_reports) = Len(chunk_inputs))
    /\ [](job_out = "err" <=> pc = "failed")

\* C7 witness: the docling fallback of the first chunk returned ok:false, the job
\* failed and the second chunk was never converted.
C7_Witness ==
    /\ pc = "failed"
    /\ used_fallback
    /\ out.kind = "resp" /\ ~out.ok
    /\ i = 0
    /\ Len(chunk_inputs) = 2
    /\ ConvertCallsOf(1) = <<>>

\* The chunk inputs of the materialization fallback: the ranges of the plan, in
\* order, against the original file.
PageRangeInputsOf(pl) ==
    [k \in 1..Len(pl.chunks) |->
        [input_pdf |-> InputPdf, start_page |-> pl.chunks[k].start_page,
         end_page |-> pl.chunks[k].end_page, use_page_range |-> TRUE,
         temp_file |-> FALSE]]

SplitCalls == SelectSeq(calls, LAMBDA c : c.op = "split")

\* C8: when the split call fails under physical_split the job goes on with the
\* ranges of the plan, in order, each against the original file with
\* use_page_range = true and temp_file = false; under another strategy a failed
\* materialization ends the job, and there no split call is made at all.
C8_MaterializationFallback ==
    /\ (split_failed /\ cfg.strategy = "physical_split")
          => /\ chunk_inputs = PageRangeInputsOf(plan)
             /\ Len(SplitCalls) = 1
             /\ pc \in {"loop", "fallback", "record", "done", "exit", "failed"}
    /\ (split_failed /\ cfg.strategy # "physical_split")
          => pc = "failed" /\ chunk_inputs = <<>>
    /\ cfg.strategy # "physical_split" => SplitCalls = <<>> /\ ~split_failed

\* C8 witness: the split call failed and the job completed both chunks by page
\* range.
C8_Witness ==
    /\ split_failed
    /\ pc = "done"
    /\ Len(chunk_reports) = 2
    /\ chunk_reports[2].start_page = chunk_inputs[2].start_page

\* run_job has computed its plan.
PlanSet == plan.chunks # <<>>

\* C9: a document within both require-chunking thresholds is executed as the one
\* chunk [1, page_count]: no split call, one chunk input against the original
\* file with use_page_range = false, convert calls for that chunk only; a
\* document over either threshold keeps the planner's plan.
C9_CollapseToSingle ==
    PlanSet =>
        IF /\ probe_res.page_count <= cfg.require_chunking_over_pages
           /\ probe_res.file_bytes <= cfg.require_chunking_over_bytes
        THEN /\ plan.chunks = <<[start_page |-> 1, end_page |-> probe_res.page_count]>>
             /\ SplitCalls = <<>>
             /\ pc # "prepare" =>
                   chunk_inputs = <<[input_pdf |-> InputPdf, start_page |-> 1,
                                     end_page |-> probe_res.page_count,
                                     use_page_range |-> FALSE, temp_file |-> FALSE]>>
             /\ \A n \in 1..Len(calls) : calls[n].chunk <= 0
             /\ job_out = "ok" => Len(chunk_reports) = 1
        ELSE plan = FromPageCount(cfg, probe_res.page_count)

\* C9 witness: a job whose planner plan had two chunks completed as one chunk.
C9_Witness ==
    /\ pc = "done"
    /\ probe_res.page_count <= cfg.require_chunking_over_pages
    /\ probe_res.file_bytes <= cfg.require_chunking_over_bytes
    /\ Len(FromPageCount(cfg, probe_res.page_count).chunks) > 1
    /\ Len(chunk_reports) = 1

\* C10 (as claimed): with job_timeout_seconds = T > 0, no convert call of a chunk
\* is made when, at the start of that chunk, the elapsed time exceeds T by any
\* amount, a fraction of a second included.
C10_NoChunkStartsPastDeadline ==
    ( /\ pc \in {"fallback", "record"}
      /\ calls # <<>>
      /\ Last(calls).chunk = i )
    => ~(cfg.job_timeout_seconds > 0
         /\ checked_at > cfg.job_timeout_seconds * TicksPerSec)

\* The convert calls made so far, in order.
ConvertCalls == SelectSeq(calls, LAMBDA c : c.op \in {"docling", "native_text"})

\* C11: the k-th chunk report (0-based) has chunk_index = k and the page range
\* of the k-th chunk input, and the engine was called for it with chunk_index k;
\* every convert call carries the index of the chunk that is next in order (the
\* number of reports recorded so far); a step only ever appends one report and
\* leaves the recorded ones as they are.
C11_PlanOrder ==
    /\ [](\A k \in 1..Len(chunk_reports) :
              /\ chunk_reports[k].chunk_index = k - 1
              /\ chunk_reports[k].start_page = chunk_inputs[k].start_page
              /\ chunk_reports[k].end_page = chunk_inputs[k].end_page
              /\ ConvertCallsOf(k - 1) # <<>>)
    /\ [](\A n \in 1..Len(ConvertCalls) :
              /\ ConvertCalls[n].chunk <= Len(chunk_reports)
              /\ n > 1 => ConvertCalls[n - 1].chunk <= ConvertCalls[n].chunk)
    /\ [][ /\ \/ chunk_reports' = chunk_reports
              \/ /\ Len(chunk_reports') = Len(chunk_reports) + 1
                 /\ SubSeq(chunk_reports', 1, Len(chunk_reports)) = chunk_reports
           /\ Len(ConvertCalls') > Len(ConvertCalls)
                => Last(ConvertCalls').chunk = Len(chunk_reports) ]_vars

\* C11 witness: a job of two chunks, materialized by the split engine, has
\* recorded both reports, the second after a docling fallback.
C11_Witness ==
    /\ pc = "done"
    /\ Len(chunk_reports) = 2
    /\ chunk_inputs[1].temp_file
    /\ chunk_reports[2].chunk_index = 1
    /\ Len(ConvertCallsOf(1)) = 2

\* ------------------------------------------------- claims about the gateway

\* C12 (as claimed): a call made with a timeout always returns, whatever the
\* child does.
C12_CallAlwaysReturns ==
    (gw_pc = "write" /\ gw_timeout.some) ~> (gw_pc = "returned")

\* C13: when the calling thread makes its timeout check with the elapsed time
\* over the timeout, the child is killed and waited for; the call then returns
\* only after both readers have drained their pipes, with a timeout error that
\* carries every stderr byte the child wrote; a killed child never yields a
\* parsed response.
C13_TimeoutKills ==
    /\ [][ ( /\ gw_pc = "check"
             /\ gw_pc' # "check"
             /\ gw_elapsed > PollLimit(gw_timeout) )
              => (gw_pc' = "join_kill" /\ child'.state # "running") ]_vars
    /\ [](gw_pc = "join_kill" => child.state # "running")
    /\ [](child.state = "killed" => gw_result.kind \in {"none", "err_timeout"})
    /\ [](gw_result.kind = "err_timeout"
            => /\ stdout_pipe = 0 /\ stderr_pipe = 0
               /\ gw_result.stderr = child.wrote_err
               /\ gw_result.parsed = 0)

\* C13 witness: a child that wrote to both streams and did not exit was killed
\* and the timeout error carries its stderr.
C13_Witness ==
    /\ gw_result.kind = "err_timeout"
    /\ child.state = "killed"
    /\ gw_result.stderr = MaxStreamBytes
    /\ out_buf > 0

\* C14: after a non-zero exit run_json returns an error that carries the
\* collected stderr and parses nothing, a well-formed stdout included; a
\* response is only ever parsed from stdout, of a child that exited with 0.
C14_NonZeroExitIsError ==
    /\ (gw_pc = "returned" /\ child.status # 0)
          => /\ gw_result.kind \in {"err_status", "err_timeout", "err_write"}
             /\ gw_result.parsed = 0
    /\ gw_result.kind = "err_status"
          => child.status # 0 /\ gw_result.stderr = err_buf
    /\ gw_result.kind = "ok"
          => /\ child.status = 0
             /\ gw_result.parsed = out_buf
             /\ gw_result.stderr = 0
             /\ Parses(child.prog, child.wrote_out)

\* C14 witness: the child wrote a complete well-formed response and some
\* stderr, exited with status 1, and run_json returned the status error.
C14_Witness ==
    /\ gw_result.kind = "err_status"
    /\ child.status = 1
    /\ child.prog.valid
    /\ out_buf = child.prog.out_len
    /\ out_buf > 0
    /\ gw_result.stderr > 0

\* --------------------------------------------- claims about probe and policy

ProbeCalls == SelectSeq(calls, LAMBDA c : c.op = "probe")

\* probe_pdf has returned a ProbeResult.
ProbeReturned == pc \notin {"idle", "cli", "start"} /\ probe_res.page_count # 0

\* C15: an input larger than max_input_file_bytes is rejected with no engine
\* call at all; the probe is called at most once; the job goes past the probe
\* only with a ProbeResult, and every ProbeResult has
\* 1 <= page_count <= max_input_pages and file_bytes <= max_input_file_bytes.
C15_ProbeLimits ==
    /\ file_bytes > cfg.max_input_file_bytes => calls = <<>> /\ pc \in {"cli", "start", "failed"}
    /\ Len(ProbeCalls) <= 1
    /\ pc \in {"plan", "prepare", "loop", "fallback", "record", "done", "exit"} => ProbeReturned
    /\ ProbeReturned
          => /\ probe_res.page_count >= 1
             /\ probe_res.page_count <= cfg.max_input_pages
             /\ probe_res.file_bytes = file_bytes
             /\ probe_res.file_bytes <= cfg.max_input_file_bytes
    /\ probe_res.page_count = 0 => pc \in {"cli", "start", "failed"}

\* C15 witness: a ProbeResult at both limits was returned.
C15_Witness ==
    /\ ProbeReturned
    /\ probe_res.page_count = cfg.max_input_pages
    /\ probe_res.file_bytes = cfg.max_input_file_bytes

\* run_job failed on the native_text backend check.
BackendRejected ==
    /\ pc = "failed"
    /\ decision.chosen_engine = "native_text"
    /\ cfg.native_text_backend # "python_pypdf"
    /\ plan.chunks = <<>>

\* C16 (as claimed): when the job fails on a configuration error (unknown
\* hashing.mode, or unsupported native_text.backend with native_text chosen),
\* no engine subprocess has been spawned.
C16_ConfigErrorBeforeAnySubprocess ==
    /\ (pc = "failed" /\ ~KnownHashMode(cfg.hashing_mode)) => calls = <<>>
    /\ BackendRejected => calls = <<>>

Decided == pc = "decided"

\* The thresholds of Config::default().
DefaultThresholds ==
    /\ cfg.min_avg_chars_per_page_for_high_text = 1200
    /\ cfg.max_avg_chars_per_page_for_scan = 80
    /\ cfg.max_garbage_ratio_for_high_text = 2
    /\ cfg.max_whitespace_ratio_for_high_text = 55

\* The three conditions of the HighText tier.
MeetsHighText(pr) ==
    /\ pr.avg_chars_per_page >= cfg.min_avg_chars_per_page_for_high_text
    /\ pr.garbage_ratio <= cfg.max_garbage_ratio_for_high_text
    /\ pr.whitespace_ratio <= cfg.max_whitespace_ratio_for_high_text

\* C17: with forced_tier = AUTO the tier is HighText iff the three HighText
\* conditions hold, otherwise Scan iff avg <= T_scan, otherwise MixedText, for all
\* drawn statistics and thresholds (T_scan >= T_high included); under the
\* default thresholds (5000, 0.0, 0.2) is HighText and (10, 0.0, 0.1) is Scan.
C17_TierByStatistics ==
    (Decided /\ cfg.forced_tier = "AUTO") =>
        /\ decision.tier = "HighText" <=> MeetsHighText(probe_res)
        /\ decision.tier = "Scan"
              <=> /\ ~MeetsHighText(probe_res)
                  /\ probe_res.avg_chars_per_page <= cfg.max_avg_chars_per_page_for_scan
        /\ decision.tier = "MixedText"
              <=> /\ ~MeetsHighText(probe_res)
                  /\ ~(probe_res.avg_chars_per_page <= cfg.max_avg_chars_per_page_for_scan)
        /\ (DefaultThresholds /\ probe_res = MkProbe(5000, 0, 20))
              => decision.tier = "HighText"
        /\ (DefaultThresholds /\ probe_res = MkProbe(10, 0, 10))
              => decision.tier = "Scan"

\* C17 witness: with T_scan >= T_high, a probe that meets the HighText
\* conditions and also has avg <= T_scan has been classified.
C17_Witness ==
    /\ Decided
    /\ cfg.forced_tier = "AUTO"
    /\ cfg.max_avg_chars_per_page_for_scan >= cfg.min_avg_chars_per_page_for_high_text
    /\ MeetsHighText(probe_res)
    /\ probe_res.avg_chars_per_page <= cfg.max_avg_chars_per_page_for_scan
    /\ decision.tier = "HighText"

\* The engine and the OCR flag the claim gives a tier.
TierPairOk(d) ==
    /\ d.tier = "HighText" => d.chosen_engine = cfg.high_text_engine /\ ~d.do_ocr
    /\ d.tier = "MixedText"
          => d.chosen_engine = cfg.mixed_text_engine /\ d.do_ocr = cfg.docling_do_ocr
    /\ d.tier = "Scan" => d.chosen_engine = cfg.scan_engine /\ d.do_ocr
    /\ d.tier \in {"HighText", "MixedText", "Scan"}

\* C18: in every decision returned, statistical or forced, do_ocr is false for
\* HighText, the configured docling do_ocr for MixedText and true for Scan, and
\* chosen_engine is the engine configured for the tier.
C18_EngineAndOcrOfTier ==
    /\ pc \in {"decide_other", "decided"} => TierPairOk(decision)
    /\ Decided => TierPairOk(decision_other)

\* C18 witness: a Scan decision with do_ocr = true was returned although the
\* configured docling do_ocr is false, by statistics and by a forced tier.
C18_Witness ==
    /\ Decided
    /\ ~cfg.docling_do_ocr
    /\ cfg.forced_tier = "AUTO"
    /\ decision.tier = "Scan"
    /\ decision.do_ocr
    /\ decision_other.tier = "HighText"

\* C19: for two probes that differ only in avg_chars_per_page, if the one with
\* the smaller avg is HighText then the one with the larger avg is not Scan.
C19_Monotone ==
    ( /\ Decided
      /\ cfg.forced_tier = "AUTO"
      /\ probe_res.garbage_ratio = probe_other.garbage_ratio
      /\ probe_res.whitespace_ratio = probe_other.whitespace_ratio )
    => /\ ( /\ probe_res.avg_chars_per_page < probe_other.avg_chars_per_page
            /\ decision.tier = "HighText" ) => decision_other.tier # "Scan"
       /\ ( /\ probe_other.avg_chars_per_page < probe_res.avg_chars_per_page
            /\ decision_other.tier = "HighText" ) => decision.tier # "Scan"

\* C19 witness: with T_scan >= T_high, the smaller avg is HighText and the
\* larger avg, still within T_scan, is classified too.
C19_Witness ==
    /\ Decided
    /\ cfg.forced_tier = "AUTO"
    /\ probe_res.garbage_ratio = probe_other.garbage_ratio
    /\ probe_res.whitespace_ratio = probe_other.whitespace_ratio
    /\ probe_res.avg_chars_per_page < probe_other.avg_chars_per_page
    /\ probe_other.avg_chars_per_page <= cfg.max_avg_chars_per_page_for_scan
    /\ decision.tier = "HighText"

\* The tier a forced_tier value names.
ForcedTierName ==
    CASE cfg.forced_tier = "HIGH_TEXT" -> "HighText"
      [] cfg.forced_tier = "MIXED_TEXT" -> "MixedText"
      [] cfg.forced_tier = "SCAN" -> "Scan"
      [] OTHER -> "none"

\* C20: with forced_tier HIGH_TEXT, MIXED_TEXT or SCAN the decision is that
\* tier with its configured engine and OCR flag, and two probes with different
\* statistics get the same decision.
C20_ForcedTierOverrides ==
    (Decided /\ cfg.forced_tier \in {"HIGH_TEXT", "MIXED_TEXT", "SCAN"})
    => /\ decision.tier = ForcedTierName
       /\ decision.chosen_engine =
             (CASE ForcedTierName = "HighText" -> cfg.high_text_engine
                [] ForcedTierName = "MixedText" -> cfg.mixed_text_engine
                [] ForcedTierName = "Scan" -> cfg.scan_engine)
       /\ decision.do_ocr =
             (CASE ForcedTierName = "HighText" -> FALSE
                [] ForcedTierName = "MixedText" -> cfg.docling_do_ocr
                [] ForcedTierName = "Scan" -> TRUE)
       /\ decision_other = decision

\* C20 witness: SCAN was forced on a probe the statistics would classify
\* HighText and on one they would classify otherwise.
C20_Witness ==
    /\ Decided
    /\ cfg.forced_tier = "SCAN"
    /\ MeetsHighText(probe_res)
    /\ ~MeetsHighText(probe_other)
    /\ decision.tier = "Scan"
    /\ decision_other.tier = "Scan"

\* ------------------------------------------------ postprocess (postprocess.rs)
\* A String is a sequence of code points.

\* Longest drawn text of the single-part family.
MaxTextLen == 3
\* Most parts of the chunk-text family.
MaxParts == 3
\* {12,} of the second default pattern.
RegexMinRun == 12

\* '\t', '\n', '\r' and '-'
Tab == 9
Lf == 10
Cr == 13
Dash == 45

\* char::is_whitespace on the code points below U+0100.
IsWhitespace(ch) == ch \in {9, 10, 11, 12, 13, 32, 133, 160}

\* char::len_utf8
Utf8Len(ch) == IF ch < 128 THEN 1 ELSE IF ch < 2048 THEN 2 ELSE IF ch < 65536 THEN 3 ELSE 4

\* str::len: the length in bytes.
RECURSIVE ByteLen(_)
ByteLen(s) == IF s = <<>> THEN 0 ELSE Utf8Len(Head(s)) + ByteLen(Tail(s))

\* [String]::join
RECURSIVE Join(_, _)
Join(ss, sep) ==
    IF ss = <<>> THEN <<>>
    ELSE IF Len(ss) = 1 THEN ss[1]
    ELSE ss[1] \o sep \o Join(Tail(ss), sep)

\* "\n\n---\n\n"
PartSeparator == <<Lf, Lf, Dash, Dash, Dash, Lf, Lf>>

\* str::replace("\r\n", "\n"): one pass from the left, matches do not overlap.
RECURSIVE ReplaceCrLf(_)
ReplaceCrLf(s) ==
    IF s = <<>> THEN <<>>
    ELSE IF Len(s) >= 2 /\ s[1] = Cr /\ s[2] = Lf
         THEN <<Lf>> \o ReplaceCrLf(SubSeq(s, 3, Len(s)))
         ELSE <<Head(s)>> \o ReplaceCrLf(Tail(s))

\* nfkc() on the drawn code points: NO-BREAK SPACE has the compatibility
\* decomposition SPACE, the other drawn code points are unchanged.
Nfkc(s) == [k \in 1..Len(s) |-> IF s[k] = 160 THEN 32 ELSE s[k]]

\* sanitize_control_chars(s, codes)
SanitizeControlChars(s, codes) ==
    IF codes = {} THEN s
    ELSE LET mask == {code \in codes : code < 128}
             keep(ch) == IF ch \in {Lf, Cr, Tab} THEN TRUE
                         ELSE IF ch < 128 THEN ch \notin mask
                         ELSE TRUE
         IN  SelectSeq(s, keep)

\* The index of the first '\n' of s, 0 when there is none.
RECURSIVE FindLf(_, _)
FindLf(s, k) == IF k > Len(s) THEN 0 ELSE IF s[k] = Lf THEN k ELSE FindLf(s, k + 1)

\* str::lines: the pieces of split_inclusive('\n'); a piece that ends in '\n'
\* loses it and then one '\r' before it, the last piece without '\n' is kept whole.
RECURSIVE Lines(_)
Lines(s) ==
    IF s = <<>> THEN <<>>
    ELSE LET k == FindLf(s, 1)
         IN  IF k = 0 THEN <<s>>
             ELSE LET piece == SubSeq(s, 1, k - 1)
                      line == IF piece # <<>> /\ piece[Len(piece)] = Cr
                              THEN SubSeq(piece, 1, Len(piece) - 1)
                              ELSE piece
                  IN  <<line>> \o Lines(SubSeq(s, k + 1, Len(s)))

\* str::trim_end
RECURSIVE TrimEnd(_)
TrimEnd(l) ==
    IF l # <<>> /\ IsWhitespace(l[Len(l)]) THEN TrimEnd(SubSeq(l, 1, Len(l) - 1)) ELSE l

\* str::trim_start
RECURSIVE TrimStart(_)
TrimStart(l) == IF l # <<>> /\ IsWhitespace(Head(l)) THEN TrimStart(Tail(l)) ELSE l

\* str::trim
Trim(l) == TrimStart(TrimEnd(l))

\* lines().map(trim_end).collect().join("\n")
TrimTrailingWhitespace(s) ==
    LET ls == Lines(s) IN Join([k \in 1..Len(ls) |-> TrimEnd(ls[k])], <<Lf>>)

\* counts.get(l2) of remove_repeated_lines: blank lines and lines longer than
\* repeated_line_max_length bytes have no entry.
RepeatCount(c, ls, l2) ==
    IF l2 = <<>> \/ ByteLen(l2) > c.repeated_line_max_length THEN 0
    ELSE Cardinality({k \in 1..Len(ls) : Trim(ls[k]) = l2})

\* The mutation of the second loop of remove_repeated_lines that keeps the
\* first occurrence of a repeated line.
KeptLinesButFirst(c, s) ==
    LET ls == Lines(s)
        RECURSIVE Pick(_)
        Pick(k) ==
            IF k > Len(ls) THEN <<>>
            ELSE LET l2 == Trim(ls[k])
                     keep == \/ l2 = <<>>
                             \/ RepeatCount(c, ls, l2) < c.repeated_line_min_occurrences
                             \/ \A j \in 1..(k - 1) : Trim(ls[j]) # l2
                 IN  (IF keep THEN <<ls[k]>> ELSE <<>>) \o Pick(k + 1)
    IN  Pick(1)

\* The vector out of remove_repeated_lines.
KeptLines(c, s) ==
    LET ls == Lines(s)
        keep(l) == IF Trim(l) = <<>> THEN TRUE
                   ELSE RepeatCount(c, ls, Trim(l)) < c.repeated_line_min_occurrences
    IN  SelectSeq(ls, keep)

\* remove_repeated_lines(cfg, s)
RemoveRepeatedLines(c, s) == Join(KeptLines(c, s), <<Lf>>)

IsDigit(ch) == ch \in 48..57
\* \s of the regex crate on the code points below U+0100.
IsRegexSpace(ch) == ch \in {9, 10, 11, 12, 13, 32, 133, 160}

\* The index after the longest run of digits (of \s) that starts at k.
RECURSIVE SkipDigits(_, _)
SkipDigits(l, k) == IF k <= Len(l) /\ IsDigit(l[k]) THEN SkipDigits(l, k + 1) ELSE k

RECURSIVE SkipSpaces(_, _)
SkipSpaces(l, k) == IF k <= Len(l) /\ IsRegexSpace(l[k]) THEN SkipSpaces(l, k + 1) ELSE k

\* ^(page\s+\d+|\d+\s*/\s*\d+)$
MatchesPageNumber(l) ==
    \/ /\ Len(l) >= 4
       /\ SubSeq(l, 1, 4) = <<112, 97, 103, 101>>
       /\ LET a == SkipSpaces(l, 5)
              b == SkipDigits(l, a)
          IN  a > 5 /\ b > a /\ b = Len(l) + 1
    \/ LET a == SkipDigits(l, 1)
           b == SkipSpaces(l, a)
           d == SkipSpaces(l, b + 1)
           e == SkipDigits(l, d)
       IN  /\ a > 1
           /\ b <= Len(l)
           /\ l[b] = 47
           /\ e > d
           /\ e = Len(l) + 1

\* ^[A-Z0-9\s\-]{12,}$
MatchesUpperRun(l) ==
    /\ Len(l) >= RegexMinRun
    /\ \A k \in 1..Len(l) : l[k] \in 65..90 \/ IsDigit(l[k]) \/ IsRegexSpace(l[k]) \/ l[k] = Dash

\* remove_by_regex(cfg, s) with the default patterns.
RemoveByRegex(c, s) ==
    LET keep(l) == ~(MatchesPageNumber(Trim(l)) \/ MatchesUpperRun(Trim(l)))
    IN  Join(SelectSeq(Lines(s), keep), <<Lf>>)

\* merge_markdown(cfg, parts), the Ok value.
MergeMarkdown(c, ps) ==
    LET joined == Join(ps, PartSeparator)
        n1 == IF c.normalize_newlines THEN ReplaceCrLf(joined) ELSE joined
        n2 == IF c.normalize_unicode THEN Nfkc(n1) ELSE n1
        n3 == SanitizeControlChars(n2, c.control_chars_to_sanitize)
        n4 == IF c.trim_trailing_whitespace THEN TrimTrailingWhitespace(n3) ELSE n3
        n5 == IF c.remove_repeated_lines THEN RemoveRepeatedLines(c, n4) ELSE n4
    IN  IF c.remove_by_regex THEN RemoveByRegex(c, n5) ELSE n5

\* The drawn code points: tab, newline, carriage return, U+0002, U+0084,
\* NO-BREAK SPACE and 'A'.
Alphabet == {9, 10, 13, 2, 132, 160, 65}
Texts == UNION {[1..n -> Alphabet] : n \in 0..MaxTextLen}

\* The drawn control_chars_to_sanitize.
CodeSets == {{}, {2, 9, 10, 13}, {2, 132}}

\* The drawn chunk texts: a title line 'T' and a unique line, the title with
\* blanks around it, a page number and a line of five bytes.
PartSamples ==
    { <<84, 10, 97>>, <<84, 10, 98>>, <<84, 10, 99>>, <<32, 84, 32, 10, 10, 100>>,
      <<49, 47, 49>>, <<84, 84, 84, 84, 84>> }
PartLists == UNION {[1..n -> PartSamples] : n \in 1..MaxParts}

PostSanitize ==
    /\ post_pc = "sanitize"
    /\ sanitized' = SanitizeControlChars(Join(parts, PartSeparator), cfg.control_chars_to_sanitize)
    /\ post_pc' = "dedupe"
    /\ UNCHANGED <<cfg, planVars, jobVars, polVars, gwVars, runVars, text, parts, deduped, merged, remerged>>

PostDedupe ==
    /\ post_pc = "dedupe"
    /\ deduped' = KeptLines(cfg, Join(parts, PartSeparator))
    /\ post_pc' = "merge"
    /\ UNCHANGED <<cfg, planVars, jobVars, polVars, gwVars, runVars, text, parts, sanitized, merged, remerged>>

PostMerge ==
    /\ post_pc = "merge"
    /\ merged' = MergeMarkdown(cfg, parts)
    /\ post_pc' = "remerge"
    /\ UNCHANGED <<cfg, planVars, jobVars, polVars, gwVars, runVars, text, parts, sanitized, deduped, remerged>>

PostRemerge ==
    /\ post_pc = "remerge"
    /\ remerged' = MergeMarkdown(cfg, <<merged>>)
    /\ post_pc' = "done"
    /\ UNCHANGED <<cfg, planVars, jobVars, polVars, gwVars, runVars, text, parts, sanitized, deduped, merged>>

InitPost ==
    /\ \/ \E nn, nu, tt, rr \in BOOLEAN, codes \in CodeSets, t \in Texts :
            /\ cfg = [BaseCfg EXCEPT !.normalize_newlines = nn,
                                     !.normalize_unicode = nu,
                                     !.trim_trailing_whitespace = tt,
                                     !.remove_repeated_lines = rr,
                                     !.repeated_line_min_occurrences = 2,
                                     !.control_chars_to_sanitize = codes]
            /\ parts = <<t>>
       \/ \E min \in {0, 1, 2, 3}, max \in {1, 4}, ps \in PartLists :
            /\ cfg = [BaseCfg EXCEPT !.repeated_line_min_occurrences = min,
                                     !.repeated_line_max_length = max]
            /\ parts = ps
    /\ sanitized = <<>>
    /\ deduped = <<>>
    /\ merged = <<>>
    /\ remerged = <<>>
    /\ text = <<>>
    /\ post_pc = "sanitize"
    /\ PlanIdle
    /\ JobIdle
    /\ PolIdle
    /\ GwIdle
    /\ RunIdle

NextPost ==
    \/ PostSanitize
    \/ PostDedupe
    \/ PostMerge
    \/ PostRemerge

SpecPost == InitPost /\ [][NextPost]_vars

\* ----------------------------------------------------------- markdown_to_text

Space == 32
Hash == 35
Star == 42

\* str::replace(pat, ""): one pass from the left, matches do not overlap.
RECURSIVE Remove(_, _)
Remove(s, pat) ==
    IF Len(s) < Len(pat) THEN s
    ELSE IF SubSeq(s, 1, Len(pat)) = pat
         THEN Remove(SubSeq(s, Len(pat) + 1, Len(s)), pat)
         ELSE <<Head(s)>> \o Remove(Tail(s), pat)

\* markdown_to_text(cfg, md), the Ok value: the four removals in the order of
\* the code.
MarkdownToText(md) ==
    LET s1 == Remove(md, <<Star, Star>>)
        s2 == Remove(s1, <<Hash, Space>>)
        s3 == Remove(s2, <<Hash, Hash, Space>>)
    IN  Remove(s3, <<Hash, Hash, Hash, Space>>)

\* The drawn markdown: '#', '*', space, newline and the letter 'T'.
MdAlphabet == {Hash, Star, Space, Lf, 84}
MdTexts == UNION {[1..n -> MdAlphabet] : n \in 0..MaxMdLen}

\* run_job flattens the merged markdown for transcript.txt.
ToText ==
    /\ post_pc = "to_text"
    /\ text' = MarkdownToText(merged)
    /\ post_pc' = "done"
    /\ UNCHANGED <<cfg, planVars, jobVars, polVars, gwVars, runVars, parts, sanitized,
                   deduped, merged, remerged>>

InitText ==
    /\ cfg = BaseCfg
    /\ merged \in MdTexts
    /\ parts = <<>>
    /\ sanitized = <<>>
    /\ deduped = <<>>
    /\ remerged = <<>>
    /\ text = <<>>
    /\ post_pc = "to_text"
    /\ PlanIdle
    /\ JobIdle
    /\ PolIdle
    /\ GwIdle
    /\ RunIdle

NextText == ToText

SpecText == InitText /\ [][NextText]_vars


\* ------------------------------------------------------------- C21 .. C23

\* C21: merge_markdown is idempotent: for every text and every setting of the
\* postprocess options, merge_markdown of the single part merge_markdown returned
\* is that same text.
C21_MergeIdempotent == post_pc = "done" => remerged = merged

\* C22: sanitize_control_chars keeps newline, carriage return and tab whatever
\* the configured set holds, removes exactly the other characters whose code
\* point is in the configured set, and keeps the rest in their order.
C22_SanitizeExact ==
    post_pc # "sanitize" =>
        LET keep(ch) == ch \in {Tab, Lf, Cr} \/ ch \notin cfg.control_chars_to_sanitize
        IN  sanitized = SelectSeq(Join(parts, PartSeparator), keep)

\* TRUE iff a is b with some elements left out.
RECURSIVE IsSubseq(_, _)
IsSubseq(a, b) ==
    IF a = <<>> THEN TRUE
    ELSE IF b = <<>> THEN FALSE
    ELSE IF Head(a) = Head(b) THEN IsSubseq(Tail(a), Tail(b))
    ELSE IsSubseq(a, Tail(b))

IsBlank(l) == Trim(l) = <<>>

\* The number of lines of ls whose trimmed form is l2.
Occurrences(ls, l2) == Cardinality({k \in 1..Len(ls) : Trim(ls[k]) = l2})

\* The lines the statement of C23 says are removed.
ShortAndRepeated(ls, l) ==
    /\ ~IsBlank(l)
    /\ ByteLen(Trim(l)) < cfg.repeated_line_max_length
    /\ Occurrences(ls, Trim(l)) >= cfg.repeated_line_min_occurrences

\* Three chunk texts, each the title line and one unique line.
TitledParts == <<<<84, 10, 97>>, <<84, 10, 98>>, <<84, 10, 99>>>>

\* C23: repeated-line removal drops every occurrence of a non-blank line whose
\* trimmed form is shorter than repeated_line_max_length and occurs at least
\* repeated_line_min_occurrences times, keeps every blank line, and keeps the
\* kept lines in their order; three chunk texts with a common title line and
\* one unique line each, with min occurrences 3, merge to a text without the
\* title and with every unique line.
C23_RepeatedLinesRemoved ==
    /\ post_pc \notin {"sanitize", "dedupe"} =>
        LET ls == Lines(Join(parts, PartSeparator))
        IN  /\ IsSubseq(deduped, ls)
            /\ \A k \in 1..Len(deduped) : ~ShortAndRepeated(ls, deduped[k])
            /\ SelectSeq(deduped, IsBlank) = SelectSeq(ls, IsBlank)
    /\ (post_pc \in {"remerge", "done"} /\ parts = TitledParts
            /\ cfg.repeated_line_min_occurrences = 3 /\ cfg.repeated_line_max_length = 4) =>
        LET ms == Lines(merged)
        IN  /\ \A k \in 1..Len(ms) : Trim(ms[k]) # <<84>>
            /\ \A u \in {97, 98, 99} : \E k \in 1..Len(ms) : ms[k] = <<u>>

\* The title line of three chunk texts and of a fourth with blanks around it
\* has been removed at all four places; the blank line of the fourth is kept.
C23_Witness ==
    /\ post_pc = "done"
    /\ Len(parts) = 3
    /\ parts[1] = <<84, 10, 97>>
    /\ parts[2] = <<32, 84, 32, 10, 10, 100>>
    /\ parts[3] = <<84, 10, 99>>
    /\ cfg.repeated_line_min_occurrences = 3
    /\ cfg.repeated_line_max_length = 4
    /\ deduped = <<<<97>>, <<>>, <<45, 45, 45>>, <<>>, <<>>, <<100>>, <<>>, <<45, 45, 45>>, <<>>, <<99>>>>


\* ------------------------------------------------- job identity (cli.rs:163-172)

\* Longest drawn input file, in bytes.
MaxFileLen == 2

\* sha256_hex, taken as injective: the digest stands for the bytes hashed.
Sha256Hex(bytes) == <<"sha256", bytes>>

\* The fields of Config in the order toml::to_string writes them.
ConfigFields ==
    << "keep_intermediates", "resume", "max_parallel_chunks", "job_timeout_seconds",
       "hashing_mode", "fast_window_bytes", "max_input_file_bytes", "max_input_pages",
       "min_avg_chars_per_page_for_high_text", "max_avg_chars_per_page_for_scan",
       "max_garbage_ratio_for_high_text", "max_whitespace_ratio_for_high_text",
       "forced_tier", "strategy", "target_pages_per_chunk", "max_pages_per_chunk",
       "min_pages_per_chunk", "keep_split_pdfs", "require_chunking_over_pages",
       "require_chunking_over_bytes", "high_text_engine", "mixed_text_engine",
       "scan_engine", "native_text_backend", "chunk_timeout_seconds",
       "doctor_timeout_seconds", "docling_do_ocr", "normalize_unicode",
       "normalize_newlines", "trim_trailing_whitespace", "remove_repeated_lines",
       "repeated_line_min_occurrences", "repeated_line_max_length",
       "control_chars_to_sanitize", "remove_by_regex", "regex_patterns_valid",
       "write_markdown", "write_text", "write_report_json", "write_index_json",
       "write_chunk_json" >>

\* The mutation of normalized_for_hash that leaves the [global] table out.
NormalizedWithoutGlobal(c) ==
    [k \in 1..(Len(ConfigFields) - 3) |-> <<ConfigFields[k + 3], c[ConfigFields[k + 3]]>>]

\* Config::normalized_for_hash: toml::to_string(self), one key = value per field.
NormalizedForHash(c) == [k \in 1..Len(ConfigFields) |-> <<ConfigFields[k], c[ConfigFields[k]]>>]

\* hash_file(cfg, path) for the two known modes, on the bytes of the file.
HashFile(c, bytes) ==
    LET size == Len(bytes)
        w == Min(c.fast_window_bytes, size)
        head == SubSeq(bytes, 1, w)
        tail == IF size > w THEN SubSeq(bytes, size - w + 1, size) ELSE <<>>
    IN  IF c.hashing_mode = "full_sha256"
        THEN Sha256Hex(bytes)
        ELSE Sha256Hex((IF w > 0 THEN head \o tail ELSE <<>>) \o <<<<"size", size>>>>)

\* job_id = sha256_hex(format!("{}:{}", cfg_hash, input_hash))
JobId(c, bytes) == Sha256Hex(<<Sha256Hex(NormalizedForHash(c)), ":", HashFile(c, bytes)>>)

Files == UNION {[1..n -> {0, 1}] : n \in 0..MaxFileLen}

\* A second configuration: the same, or one that differs in one field.
OneFieldChanged(c) ==
    { c,
      [c EXCEPT !.keep_intermediates = ~c.keep_intermediates],
      [c EXCEPT !.resume = ~c.resume],
      [c EXCEPT !.fast_window_bytes = c.fast_window_bytes + 1],
      [c EXCEPT !.hashing_mode = IF @ = "full_sha256" THEN "fast_2x16mb" ELSE "full_sha256"],
      [c EXCEPT !.target_pages_per_chunk = c.target_pages_per_chunk + 1],
      [c EXCEPT !.write_index_json = ~c.write_index_json] }

\* run (cli.rs:163-167) of the first run.
JobIdFirst ==
    /\ job_ids.first = NoJobId
    /\ job_ids' = [job_ids EXCEPT !.first = JobId(cfg, ambient.first.input)]
    /\ UNCHANGED <<cfg, planVars, jobVars, polVars, gwVars, postVars, prior_run, written, ambient>>

\* run (cli.rs:163-167) of the second run.
JobIdOther ==
    /\ job_ids.first # NoJobId
    /\ job_ids.other = NoJobId
    /\ job_ids' = [job_ids EXCEPT !.other = JobId(ambient.cfg_other, ambient.other.input)]
    /\ UNCHANGED <<cfg, planVars, jobVars, polVars, gwVars, postVars, prior_run, written, ambient>>

InitIdentity ==
    /\ \E hm \in {"full_sha256", "fast_2x16mb"} : cfg = [BaseCfg EXCEPT !.hashing_mode = hm]
    /\ \E f1, f2 \in Files, o1, o2 \in {"out", "elsewhere"}, t1, t2 \in {0, 1},
          c2 \in OneFieldChanged(cfg) :
            ambient = [first |-> [input |-> f1, out_root |-> o1, now |-> t1],
                       other |-> [input |-> f2, out_root |-> o2, now |-> t2],
                       cfg_other |-> c2]
    /\ job_ids = [first |-> NoJobId, other |-> NoJobId]
    /\ prior_run = FALSE
    /\ written = <<>>
    /\ PlanIdle
    /\ JobIdle
    /\ PolIdle
    /\ GwIdle
    /\ PostIdle

NextIdentity ==
    \/ JobIdFirst
    \/ JobIdOther

SpecIdentity == InitIdentity /\ [][NextIdentity]_vars

C25_RerunIsNoOp ==
    prior_run =>
        /\ calls = <<>>
        /\ written = <<>>
        /\ removed = {}
        /\ cfg.resume => pc # "failed"
        /\ ~cfg.resume => pc \in {"cli", "failed"}

IsConvert(c) == c.op \in {"docling", "native_text"}

\* C26: whatever max_parallel_chunks is, engine calls are made one at a time,
\* and the first convert call of chunk k is made only at the head of the loop,
\* when the reports of the chunks 0..k-1 and no other are recorded and no
\* result is pending; a fallback call directly follows the native call of the
\* same chunk.
C26_OneChunkAtATime ==
    [][ Len(calls') > Len(calls) =>
          LET n == Len(calls')
              c == calls'[n]
          IN  /\ n = Len(calls) + 1
              /\ SubSeq(calls', 1, n - 1) = calls
              /\ (IsConvert(c) /\ ~c.fallback) =>
                    /\ pc = "loop"
                    /\ out = NoOut
                    /\ Len(chunk_reports) = c.chunk
                    /\ \A j \in 1..(n - 1) : IsConvert(calls[j]) => calls[j].chunk < c.chunk
              /\ (IsConvert(c) /\ c.fallback) =>
                    /\ Len(chunk_reports) = c.chunk
                    /\ IsConvert(calls[n - 1])
                    /\ calls[n - 1].chunk = c.chunk
                    /\ ~calls[n - 1].fallback ]_vars

\* With max_parallel_chunks = 4 a job of two chunks has ended, its second chunk
\* converted by a fallback call.
C26_Witness ==
    /\ cfg.max_parallel_chunks = 4
    /\ pc = "exit"
    /\ Len(chunk_reports) = 2
    /\ Len(calls) >= 4
    /\ calls[Len(calls)].fallback

\* The temporary files the split call returned for this job.
TempSplitFiles ==
    {chunk_inputs[k].input_pdf : k \in {n \in 1..Len(chunk_inputs) : chunk_inputs[n].temp_file}}

\* C27: at the end of a job that used physical split every temporary split file
\* is removed when keep_intermediates and keep_split_pdfs are both false, and
\* none is removed when either is true.
C27_TempFilesRemovedUnlessKept ==
    (pc \in {"done", "exit"} /\ TempSplitFiles # {}) =>
        removed = IF ~cfg.keep_intermediates /\ ~cfg.keep_split_pdfs
                  THEN TempSplitFiles
                  ELSE {}

\* A job that split its input in two has ended and both split files are removed.
C27_Witness ==
    /\ pc = "exit"
    /\ ~cfg.keep_intermediates
    /\ ~cfg.keep_split_pdfs
    /\ Cardinality(TempSplitFiles) = 2
    /\ removed = TempSplitFiles

\* C29: the engine calls of a job are one probe, then at most one split, then
\* the convert calls; no split or convert call is made before the plan is
\* computed from the probe; the job ends in success only with every chunk
\* input converted and recorded; no engine call is made once the job has failed.
C29_CallOrder ==
    /\ [](calls # <<>> =>
            /\ calls[1].op = "probe"
            /\ \A k \in 2..Len(calls) :
                  /\ calls[k].op # "probe"
                  /\ calls[k].op = "split" => k = 2
                  /\ IsConvert(calls[k]) \/ calls[k].op = "split")
    /\ [](pc \in {"cli", "start"} => calls = <<>>)
    /\ [](plan.chunks = <<>> => Len(calls) <= 1)
    /\ [](pc \in {"done", "exit"} =>
            /\ Len(chunk_reports) = Len(chunk_inputs)
            /\ \A k \in 1..Len(chunk_inputs) :
                  \E j \in 1..Len(calls) : IsConvert(calls[j]) /\ calls[j].chunk = k - 1)
    /\ [][pc = "failed" => calls' = calls]_vars

\* A job has made a probe call, a split call and three convert calls in that
\* order and has ended in success.
C29_Witness ==
    /\ pc = "exit"
    /\ Len(calls) = 5
    /\ calls[1].op = "probe"
    /\ calls[2].op = "split"
    /\ \A k \in 3..5 : IsConvert(calls[k])

\* C30: a failed run has written no final artifact and no index.json and has
\* removed nothing; in a successful run index.json comes after every enabled
\* final artifact.
C30_FailureWritesNothing ==
    /\ pc = "failed" => (written = <<>> /\ removed = {})
    /\ pc # "exit" => written = <<>>
    /\ pc = "exit" =>
        /\ \A k \in 1..Len(written) : written[k] = "index.json" => k = Len(written)
        /\ (cfg.write_index_json => written # <<>> /\ written[Len(written)] = "index.json")
        /\ cfg.write_markdown => \E k \in 1..Len(written) : written[k] = "transcript.md"
        /\ cfg.write_text => \E k \in 1..Len(written) : written[k] = "transcript.txt"
        /\ cfg.write_report_json => \E k \in 1..Len(written) : written[k] = "report.json"

\* A job whose merge failed after both chunks were recorded has written and
\* removed nothing, with cleanup enabled.
C30_Witness ==
    /\ pc = "failed"
    /\ Len(chunk_reports) = 2
    /\ TempSplitFiles # {}
    /\ ~cfg.keep_intermediates
    /\ ~cfg.keep_split_pdfs


\* C28: a convert call runs under the timeout chunk_timeout_seconds when that is
\* > 0 and under none when it is 0, and then the gateway never kills the child;
\* doctor, probe and split calls always run under a timeout: doctor_timeout_seconds,
\* 120 s and 300 s.
C28_TimeoutPerCapability ==
    gw_op \in EngineOps =>
        /\ gw_op \in {"convert_docling", "convert_native_text"} =>
              /\ cfg.chunk_timeout_seconds > 0
                    => gw_timeout = [some |-> TRUE, secs |-> cfg.chunk_timeout_seconds]
              /\ cfg.chunk_timeout_seconds = 0
                    => /\ ~gw_timeout.some
                       /\ child.state # "killed"
                       /\ gw_result.kind # "err_timeout"
        /\ gw_op = "doctor" => gw_timeout = [some |-> TRUE, secs |-> cfg.doctor_timeout_seconds]
        /\ gw_op = "probe_pdf" => gw_timeout = [some |-> TRUE, secs |-> 120]
        /\ gw_op = "split_pdf" => gw_timeout = [some |-> TRUE, secs |-> 300]

\* A convert call with chunk_timeout_seconds = 0 has returned the response of a
\* child that the gateway waited for past every timeout of the other calls.
C28_Witness ==
    /\ gw_op = "convert_native_text"
    /\ cfg.chunk_timeout_seconds = 0
    /\ gw_result.kind = "ok"
    /\ child.state = "exited"


\* ------------------------------------------------------------- C31 .. C40

\* min(p + target - 1, p + max - 1, page_count) for the chunk that starts at q.
ClippedEnd(q) == Min(Min(q + Target(cfg) - 1, q + MaxP(cfg) - 1), page_count)

\* C31: every chunk starts at a cursor q and ends at min(q + target - 1,
\* q + max - 1, page_count), extended to page_count exactly when between 1 and
\* min - 1 pages remain after that end and the chunk is not the first; 101 pages
\* with target 40, max 80, min 10 give [1-40], [41-80], [81-101].
C31_ChunkEndRule ==
    /\ \A k \in 1..Len(chunks) :
          LET q == chunks[k].start_page
              remaining == page_count - ClippedEnd(q)
              extended == remaining >= 1 /\ remaining <= MinP(cfg) - 1 /\ k > 1
          IN  chunks[k].end_page = IF extended THEN page_count ELSE ClippedEnd(q)
    /\ (PlanDone /\ page_count = 101 /\ cfg.target_pages_per_chunk = 40
            /\ cfg.max_pages_per_chunk = 80 /\ cfg.min_pages_per_chunk = 10)
          => chunks = << [start_page |-> 1, end_page |-> 40],
                         [start_page |-> 41, end_page |-> 80],
                         [start_page |-> 81, end_page |-> 101] >>

\* The plan of scenario A has been returned.
C31_Witness ==
    /\ PlanDone
    /\ page_count = 101
    /\ cfg.target_pages_per_chunk = 40
    /\ Len(chunks) = 3
    /\ chunks[3].end_page = 101


\* The report r carries the fallback note.
HasFallbackNote(r) ==
    \E n \in 1..Len(r.warnings) : r.warnings[n] = "native_text failed; fell back to docling"

\* docling was invoked as a fallback for chunk k.
FallbackInvoked(k) == \E j \in 1..Len(calls) : calls[j].chunk = k /\ calls[j].fallback

\* C32: a chunk report carries the fallback note if and only if docling was
\* invoked as a fallback for its chunk; its other warnings are those of the
\* result that was final when the chunk was recorded, which after a fallback is
\* the answer of the docling call and not that of the native attempt.
C32_FallbackNote ==
    /\ [](\A k \in 1..Len(chunk_reports) :
            HasFallbackNote(chunk_reports[k]) <=> FallbackInvoked(chunk_reports[k].chunk_index))
    /\ [][ (pc = "fallback" /\ pc' # "fallback") =>
              /\ calls' = Append(calls, [op |-> "docling", chunk |-> i, fallback |-> TRUE])
              /\ pc' = "record"
              /\ out' \in ConvertOutcomes ]_vars
    /\ [][ Len(chunk_reports') > Len(chunk_reports) =>
              LET r == chunk_reports'[Len(chunk_reports')]
                  own == SelectSeq(r.warnings,
                            LAMBDA w : w # "native_text failed; fell back to docling")
              IN  /\ own = IF out.missing THEN <<"missing pypdf import">> ELSE <<>>
                  /\ r.ok = out.ok
                  /\ FallbackInvoked(r.chunk_index) =>
                        (calls[Len(calls)].fallback /\ calls[Len(calls)].chunk = r.chunk_index) ]_vars

\* The report of a chunk converted by the fallback keeps the warning the
\* docling call returned, followed by the note.
C32_Witness ==
    /\ Len(chunk_reports) >= 1
    /\ chunk_reports[1].warnings
          = <<"missing pypdf import", "native_text failed; fell back to docling">>
    /\ FallbackInvoked(0)


\* C33: when run_job has succeeded, the page ranges of its chunk reports are the
\* ranges of the executed plan, in order, whatever the split call returned.
C33_ReportsCoverPlan ==
    pc \in {"done", "exit"} =>
        /\ Len(chunk_reports) = Len(plan.chunks)
        /\ \A k \in 1..Len(chunk_reports) :
              /\ chunk_reports[k].start_page = plan.chunks[k].start_page
              /\ chunk_reports[k].end_page = plan.chunks[k].end_page


\* C34: in a plan of more than one chunk every chunk input is restricted to its
\* own range, for every chunking.strategy: a split file (no page range request,
\* temporary) or the original file with use_page_range set.
C34_InputsRestricted ==
    (pc \in {"loop", "fallback", "record", "done", "write", "exit"} /\ Len(plan.chunks) > 1) =>
        \A k \in 1..Len(chunk_inputs) :
            \/ /\ chunk_inputs[k].input_pdf # InputPdf
               /\ ~chunk_inputs[k].use_page_range
               /\ chunk_inputs[k].temp_file
            \/ /\ chunk_inputs[k].input_pdf = InputPdf
               /\ chunk_inputs[k].use_page_range


\* C35: cleanup_intermediates deletes only files the split call returned (chunk
\* inputs with temp_file set): the original input is never deleted, a chunk
\* input that points at the original input is never temporary, and nothing is
\* deleted unless run_job reaches its successful end.
C35_CleanupOnlySplitFiles ==
    /\ [](/\ InputPdf \notin removed
          /\ \A f \in removed :
                \E k \in 1..Len(chunk_inputs) :
                    /\ chunk_inputs[k].input_pdf = f
                    /\ chunk_inputs[k].temp_file
                    /\ f[1] = "split"
          /\ \A k \in 1..Len(chunk_inputs) :
                chunk_inputs[k].input_pdf = InputPdf => ~chunk_inputs[k].temp_file
          /\ job_out = "err" => removed = {})
    /\ [][removed' # removed => (pc = "loop" /\ pc' = "done" /\ job_out' = "ok")]_vars

\* A job whose split call failed converted both chunks from the original file
\* and ended with cleanup enabled: nothing was removed.
C35_Witness ==
    /\ pc = "exit"
    /\ split_failed
    /\ ~cfg.keep_intermediates
    /\ ~cfg.keep_split_pdfs
    /\ Len(chunk_inputs) = 2
    /\ \A k \in 1..2 : chunk_inputs[k].input_pdf = InputPdf
    /\ removed = {}


\* C36: for every page_count, target, max and min of the word size, no addition
\* or subtraction of from_page_count leaves the word (so no build panics and the
\* cursor never wraps), and the returned plan covers [1, page_count].
C36_NoOverflow ==
    /\ plan_pc # "panic"
    /\ p >= 1
    /\ (plan_pc = "loop" /\ p <= page_count) =>
          ~Overflows(cfg, page_count, p, chunks = <<>>)
    /\ (PlanDone /\ page_count >= 1) =>
          /\ chunks # <<>>
          /\ chunks[1].start_page = 1
          /\ chunks[Len(chunks)].end_page = page_count
          /\ \A k \in 1..(Len(chunks) - 1) : chunks[k + 1].start_page = chunks[k].end_page + 1


\* The number of lines of text s that are the separator line ---.
SeparatorLines(s) ==
    Cardinality({k \in 1..Len(Lines(s)) : Lines(s)[k] = <<Dash, Dash, Dash>>})

\* C37: the text merge_markdown returns for n parts keeps the n - 1 separator
\* lines that join adjacent parts; no postprocess step removes one.
C37_SeparatorsKept ==
    post_pc \in {"remerge", "done"} => SeparatorLines(merged) = Len(parts) - 1


\* TRUE iff pat occurs in s.
Contains(s, pat) ==
    \E k \in 1..(Len(s) - Len(pat) + 1) : SubSeq(s, k, k + Len(pat) - 1) = pat

\* C38: markdown_to_text turns a heading line of level 1 to 3 into its title with
\* no '#' left, and its output contains neither '# ' nor '**'.
C38_MarkersRemoved ==
    (post_pc = "done" /\ parts = <<>>) =>
        /\ \A level \in 1..3 :
              LET marker == [k \in 1..level |-> Hash] \o <<Space>>
                  title == SubSeq(merged, level + 2, Len(merged))
              IN  (/\ Len(merged) > level + 1
                   /\ SubSeq(merged, 1, level + 1) = marker
                   /\ \A k \in 1..Len(title) : title[k] = 84)
                      => text = title
        /\ ~Contains(text, <<Hash, Space>>)
        /\ ~Contains(text, <<Star, Star>>)


\* C39: remove_repeated_lines removes only eligible lines (non-blank, trimmed
\* length within repeated_line_max_length, trimmed form occurring at least
\* repeated_line_min_occurrences times), for every value of the minimum: the
\* lines that are not eligible are all kept, in their order.
C39_OnlyEligibleRemoved ==
    post_pc \notin {"idle", "sanitize", "dedupe", "to_text"} /\ parts # <<>> =>
        LET ls == Lines(Join(parts, PartSeparator))
            eligible(l) ==
                /\ Trim(l) # <<>>
                /\ ByteLen(Trim(l)) <= cfg.repeated_line_max_length
                /\ Occurrences(ls, Trim(l)) >= cfg.repeated_line_min_occurrences
            kept(l) == ~eligible(l)
        IN  SelectSeq(deduped, kept) = SelectSeq(ls, kept)


\* C40: a forced_tier that is none of AUTO, HIGH_TEXT, MIXED_TEXT, SCAN is not
\* rejected: decide returns, whatever the sampled statistics, the MixedText tier
\* with the mixed-text engine and the configured docling do_ocr.
C40_UnknownForcedTierIsMixed ==
    (Decided /\ cfg.forced_tier \notin {"AUTO", "HIGH_TEXT", "MIXED_TEXT", "SCAN"}) =>
        LET mixed == [tier |-> "MixedText", chosen_engine |-> cfg.mixed_text_engine,
                      do_ocr |-> cfg.docling_do_ocr]
        IN  decision = mixed /\ decision_other = mixed

\* The lower-case name high_text was forced with OCR configured, on a probe the
\* statistics classify HighText and on one they classify Scan: both decisions
\* are MixedText with OCR.
C40_Witness ==
    /\ Decided
    /\ cfg.forced_tier = "high_text"
    /\ cfg.docling_do_ocr
    /\ MeetsHighText(probe_res)
    /\ probe_other.avg_chars_per_page <= cfg.max_avg_chars_per_page_for_scan
    /\ decision.tier = "MixedText"
    /\ decision.do_ocr
    /\ decision_other.tier = "MixedText"

====
